---- MODULE Spec2Model ----
(***************************************************************************)
(* Presence-aware message delivery and deferred e-mail notification:       *)
(* EmailService (rate limiter, store-first-send-later dispatcher),         *)
(* QueueService (broker connection, publisher, consumer), MessageService   *)
(* (persistence, deferred read check) and MessagingGateway (presence,      *)
(* active conversation, send / mark-read protocol).                        *)
(*                                                                         *)
(* Every await of the TypeScript code is a step boundary: one action is    *)
(* the synchronous run of a handler from one await to the next.            *)
(***************************************************************************)
EXTENDS Integers, Sequences, FiniteSets, TLC

(***************************************************************************)
(* Program constants                                                       *)
(***************************************************************************)
DAILY_EMAIL_LIMIT == 450

RATE_LIMIT_WINDOW == 24 * 60 * 60 * 1000

maxRetries == 3

(***************************************************************************)
(* Bounds of the model                                                     *)
(***************************************************************************)
\* clock advances the model takes
MaxTicks == 1

\* HTTP POST /email calls (createEmail)
MaxCreateCalls == 1

\* events put on the work queue by other services and by direct publish calls
MaxExternal == 1

\* deliveries of one queue message to the consumer
MaxDeliveries == 5

\* chat messages sent
MaxMsgs == 1

\* explicit mark-read requests (message or conversation)
MaxReadOps == 1

\* send requests that are rejected
MaxRejected == 1

\* confirmation_updated events one socket gets for one confirmation
MaxBroadcasts == 1

\* characters of a text given to encrypt
MaxLen == 2

Range(f) == {f[x] : x \in DOMAIN f}

\* a clock advance that takes the time past the end of the current window
WindowElapsed == RATE_LIMIT_WINDOW + 1

\* no notification record
NoRecord == <<"none", 0, 0, 0>>

\* the id (randomUUID) of the record createEmail call k saves
CreateRecordId(k) == <<"create", k, 0, 0>>

\* the id of the record the handler of queue message i saves in delivery d, round r
QueueRecordId(i, d, r) == <<"queue", i, d, r>>

\* the Notification table with record id saved with sentAt t (0 = null)
SaveRecord(table, id, t) ==
  [x \in DOMAIN table \cup {id} |-> IF x = id THEN [sentAt |-> t] ELSE table[x]]

\* EmailEvent['type'] (email-event.interface.ts) and a body that is not JSON
EventTypes ==
  {"BOOKING_CONFIRMATION", "BOOKING_REMINDER", "BOOKING_CANCELLATION_MODIFICATION",
   "NEW_MESSAGE_OR_REVIEW", "OTHER"}

Garbage == "not-json"

\* the bodies the model puts on the queue from outside
ExternalBodies == {"BOOKING_CONFIRMATION", "NEW_MESSAGE_OR_REVIEW", "OTHER", Garbage}

\* what mailerService.sendMail can answer
MailOutcomes == {"ok", "quota", "auth", "transient", "other"}

VARIABLES
  now,                 \* Date.now(), in milliseconds
  ticks,               \* clock advances taken so far
  rateLimitCounter,    \* EmailService.rateLimitCounter
  rateLimitResetTime,  \* EmailService.rateLimitResetTime
  windowSends,         \* since the counter was last reset: sends the transport accepted,
                       \*   and whether it answered quota exceeded
  emailRecords,        \* the Notification table: id -> [sentAt], 0 = null
  createCalls,         \* createEmail calls in flight: k -> [pc, result]
  started,             \* onModuleInit has run
  connection,          \* QueueService.connection # null
  channel,             \* QueueService.channel # null
  consumer,            \* the broker holds a consumer of this process
  broker,              \* the work queue: sequence of message records
  connectedUsers,      \* MessagingGateway.connectedUsers, in insertion order
  activeConversations, \* MessagingGateway.activeConversations: userId -> conversationId
  presenceBroadcast,   \* userId -> the last user:online / user:offline broadcast
  superseded,          \* userId -> the socket its latest re-registration replaced,
                       \*   and whether that socket has disconnected since
  messages,            \* the Message table and, per message, its send handler and timer
  readCalls,           \* markMessageAsRead calls between their read and their write
  readOps,             \* explicit mark-read requests received so far
  rejected,            \* send requests rejected so far
  emitted,             \* <<socket, event, message>> -> how many times it was emitted
  plaintext,           \* the text last given to CryptoService.encrypt
  encryptedText,       \* what that encrypt call returned (<<>> before any call)
  decrypted,           \* the outcome of decrypt(encryptedText)
  detected             \* the outcome of isEncrypted(encryptedText)

vars ==
  <<now, ticks, rateLimitCounter, rateLimitResetTime, windowSends, emailRecords, createCalls,
    started, connection, channel, consumer, broker,
    connectedUsers, activeConversations, presenceBroadcast, superseded, messages,
    readCalls, readOps, rejected, emitted, plaintext, encryptedText, decrypted, detected>>

cryptoVars == <<plaintext, encryptedText, decrypted, detected>>

emailVars == <<rateLimitCounter, rateLimitResetTime, windowSends, emailRecords, createCalls>>

connVars == <<started, connection, channel, consumer>>

presenceVars == <<connectedUsers, activeConversations, presenceBroadcast, superseded>>

chatVars == <<messages, readCalls, readOps, rejected, emitted>>

msgVars == <<presenceVars, chatVars>>

queueVars == <<connVars, broker>>

(***************************************************************************)
(* EmailService: rate limiter                                              *)
(***************************************************************************)
\* the limiter after resetRateLimit() has run at time `now`
resetRateLimit ==
  IF now > rateLimitResetTime
    THEN [counter |-> 0, resetTime |-> now + RATE_LIMIT_WINDOW]
    ELSE [counter |-> rateLimitCounter, resetTime |-> rateLimitResetTime]

\* faulty variant: the limit test lets the counter reach the cap plus one
checkRateLimit_AtMostCap == resetRateLimit.counter <= DAILY_EMAIL_LIMIT

\* checkRateLimit(): reset lazily, then compare with the cap
checkRateLimit == resetRateLimit.counter < DAILY_EMAIL_LIMIT

\* faulty variant: a successful send is counted twice
IncrementCounter_Twice(c) == c + 2

\* the counter after a send that the transport reported as successful
IncrementCounter(c) == c + 1

\* what the transport answered since the last reset, after checkRateLimit() has run
SendsAfterCheck ==
  IF now > rateLimitResetTime THEN [sent |-> 0, forced |-> FALSE] ELSE windowSends

\* what the transport answered since the last reset, after one more answer
SendsAfterResult(outcome) ==
  IF outcome = "ok" THEN [windowSends EXCEPT !.sent = @ + 1]
  ELSE IF outcome = "quota" THEN [windowSends EXCEPT !.forced = TRUE]
  ELSE windowSends

\* faulty variant: a provider quota failure is counted like one more e-mail
CounterAfterFailure_Increment(c, outcome) ==
  IF outcome = "quota" THEN c + 1 ELSE c

\* faulty variant: every failed send is counted, whatever the error
CounterAfterFailure_CountsAll(c, outcome) ==
  IF outcome = "quota" THEN DAILY_EMAIL_LIMIT ELSE c + 1

\* the counter after a failed send: forced to the cap on provider quota exceeded
CounterAfterFailure(c, outcome) ==
  IF outcome = "quota" THEN DAILY_EMAIL_LIMIT ELSE c

(***************************************************************************)
(* EmailService.createEmail (HTTP POST /email): check, send, then persist  *)
(***************************************************************************)
CreateCallIds == 1..MaxCreateCalls

CreateEmailStart(k) ==
  /\ createCalls[k].pc = "idle"
  /\ rateLimitCounter' = resetRateLimit.counter
  /\ rateLimitResetTime' = resetRateLimit.resetTime
  /\ windowSends' = SendsAfterCheck
  /\ createCalls' =
       [createCalls EXCEPT ![k] =
          IF checkRateLimit THEN [pc |-> "mail", result |-> "none"]
                            ELSE [pc |-> "done", result |-> "refused"]]
  /\ UNCHANGED <<cryptoVars, msgVars, now, ticks, emailRecords, queueVars>>

CreateEmailResult(k, outcome) ==
  /\ createCalls[k].pc = "mail"
  /\ windowSends' = SendsAfterResult(outcome)
  /\ IF outcome = "ok"
       THEN /\ rateLimitCounter' = IncrementCounter(rateLimitCounter)
            /\ createCalls' = [createCalls EXCEPT ![k] = [pc |-> "save", result |-> "ok"]]
       ELSE /\ rateLimitCounter' = CounterAfterFailure(rateLimitCounter, outcome)
            /\ createCalls' = [createCalls EXCEPT ![k] = [pc |-> "done", result |-> outcome]]
  /\ UNCHANGED <<cryptoVars, msgVars, now, ticks, rateLimitResetTime, emailRecords, queueVars>>

CreateEmailSave(k) ==
  /\ createCalls[k].pc = "save"
  /\ emailRecords' = SaveRecord(emailRecords, CreateRecordId(k), now)
  /\ createCalls' = [createCalls EXCEPT ![k].pc = "done"]
  /\ UNCHANGED <<cryptoVars, msgVars, now, ticks, rateLimitCounter, rateLimitResetTime, windowSends, queueVars>>

(***************************************************************************)
(* QueueService: connection                                                *)
(***************************************************************************)
ConnectOutcomes == {"ok", "noConnection", "noChannel"}

\* faulty variant: setupConsumer registers the consumer whatever connect() achieved
OnModuleInit_ConsumesAnyway(outcome, consumeOk) ==
  /\ ~started
  /\ started' = TRUE
  /\ connection' = (outcome # "noConnection")
  /\ channel' = (outcome = "ok")
  /\ consumer' = consumeOk
  /\ UNCHANGED <<cryptoVars, msgVars, now, ticks, emailVars, broker>>

\* onModuleInit: connect() then setupConsumer(); neither throws
OnModuleInit(outcome, consumeOk) ==
  /\ ~started
  /\ started' = TRUE
  /\ connection' = (outcome # "noConnection")
  /\ channel' = (outcome = "ok")
  /\ consumer' = (outcome = "ok" /\ consumeOk)
  /\ UNCHANGED <<cryptoVars, msgVars, now, ticks, emailVars, broker>>

\* the broker returns every unacknowledged delivery of a closed channel to the queue
RequeueUnacked(q) ==
  [i \in DOMAIN q |->
     IF q[i].state = "unacked" THEN [q[i] EXCEPT !.state = "ready"] ELSE q[i]]

\* connection 'error' / 'close' handlers
ConnectionLost ==
  /\ connection
  /\ connection' = FALSE
  /\ channel' = FALSE
  /\ consumer' = FALSE
  /\ broker' = RequeueUnacked(broker)
  /\ UNCHANGED <<cryptoVars, msgVars, now, ticks, emailVars, started>>

\* faulty variant: the consumer goes on receiving after its channel has closed
ChannelLost_KeepsConsumer ==
  /\ channel
  /\ channel' = FALSE
  /\ broker' = RequeueUnacked(broker)
  /\ UNCHANGED <<cryptoVars, msgVars, now, ticks, emailVars, started, connection, consumer>>

\* channel 'error' / 'close' handlers
ChannelLost ==
  /\ channel
  /\ channel' = FALSE
  /\ consumer' = FALSE
  /\ broker' = RequeueUnacked(broker)
  /\ UNCHANGED <<cryptoVars, msgVars, now, ticks, emailVars, started, connection>>

(***************************************************************************)
(* The work queue                                                          *)
(***************************************************************************)
\* the routing keys connect() binds the work queue with, by the kind each is for
BoundKey(type) ==
  CASE type = "BOOKING_CONFIRMATION" -> "email.booking.confirmation"
    [] type = "BOOKING_REMINDER" -> "email.booking.reminder"
    [] type = "BOOKING_CANCELLATION_MODIFICATION" -> "email.booking.modification"
    [] type = "NEW_MESSAGE_OR_REVIEW" -> "email.message.review"
    [] OTHER -> "email.other"

\* a message on the work queue: its body, the chat message it was published for
\* (0 = none), the routing key it was published under, and its delivery state
NewQueueMessage(body, src, key) ==
  [body |-> body, src |-> src, routingKey |-> key, state |-> "ready", retryHeader |-> 0,
   deliveries |-> 0, acks |-> 0, nacks |-> 0,
   hpc |-> "idle", remaining |-> 0, rec |-> NoRecord, results |-> <<>>]

\* another service publishes an event (or a malformed body) to the exchange, under
\* the key bound for its kind
ExternalPublish(body) ==
  /\ Len(broker) < MaxExternal
  /\ broker' = Append(broker, NewQueueMessage(body, 0, BoundKey(body)))
  /\ UNCHANGED <<cryptoVars, msgVars, now, ticks, emailVars, started, connection, channel, consumer>>

(***************************************************************************)
(* QueueService.setupConsumer: the handler of one delivery                 *)
(***************************************************************************)
\* channel.ack(msg)
Ack(m) == [m EXCEPT !.state = "acked", !.acks = @ + 1, !.hpc = "idle"]

\* channel.nack(msg, false, true): back to the queue, headers untouched
NackRequeue(m) == [m EXCEPT !.state = "ready", !.nacks = @ + 1, !.hpc = "idle"]

\* the handler returns without settling (this.channel is null)
Unsettled(m) == [m EXCEPT !.hpc = "idle"]

\* faulty variant: the success path returns without acknowledging
SettleSuccess_Unsettled(m) == Unsettled(m)

\* success path: ack when the channel is still there
SettleSuccess(m) == IF channel THEN Ack(m) ELSE Unsettled(m)

\* the error an exception carries into the consumer's catch block
ParseError == [code |-> "none", text |-> "syntax", response |-> "none"]

isRateLimitError(e) == e.code = "EENVELOPE" /\ e.response = "sending limit"

isAuthError(e) == e.code = "EAUTH" \/ e.text = "authentication failed"

isTemporaryError(e) ==
  e.code = "ECONNECTION" \/ e.code = "ETIMEDOUT" \/ e.text = "timeout"

\* one error for each branch of the catch block: provider quota, authentication,
\* temporary, and unknown
BranchErrors ==
  {[code |-> "EENVELOPE", text |-> "none", response |-> "sending limit"],
   [code |-> "EAUTH", text |-> "none", response |-> "none"],
   [code |-> "ETIMEDOUT", text |-> "none", response |-> "none"],
   ParseError}

\* the catch block of the consumer callback
SettleFailure(m, e) ==
  IF isRateLimitError(e) \/ isAuthError(e)
    THEN (IF channel THEN Ack(m) ELSE Unsettled(m))
  ELSE IF isTemporaryError(e)
    THEN (IF channel THEN NackRequeue(m) ELSE Unsettled(m))
  ELSE LET retryCount == m.retryHeader + 1 IN
       IF retryCount <= maxRetries
         THEN (IF channel THEN NackRequeue(m) ELSE Unsettled(m))
         ELSE (IF channel THEN Ack(m) ELSE Unsettled(m))

\* processEmailEvent: how many store-then-send rounds the event's type asks for
EmailsFor(type) ==
  CASE type = "BOOKING_CONFIRMATION" -> 2
    [] type = "BOOKING_CANCELLATION_MODIFICATION" -> 2
    [] type = "BOOKING_REMINDER" -> 2
    [] type = "NEW_MESSAGE_OR_REVIEW" -> 1
    [] OTHER -> 0

\* faulty variant: the error of a failed round propagates to the consumer callback, which
\* negative-acknowledges with requeue
AfterEmail_Propagate(m, result) ==
  LET r == [m EXCEPT !.results = Append(@, result), !.remaining = 0] IN
  IF result # "ok"
    THEN (IF channel THEN NackRequeue(r) ELSE Unsettled(r))
  ELSE IF m.remaining > 1
    THEN [m EXCEPT !.results = Append(@, result), !.remaining = @ - 1,
                   !.hpc = "save", !.rec = NoRecord]
    ELSE SettleSuccess(r)

\* the catch of send...Emails swallows the error of one round; the handler goes on
\* to the next round, or returns to the consumer callback, which acknowledges
AfterEmail(m, result) ==
  LET r == [m EXCEPT !.results = Append(@, result)] IN
  IF m.remaining > 1
    THEN [r EXCEPT !.remaining = @ - 1, !.hpc = "save", !.rec = NoRecord]
    ELSE SettleSuccess([r EXCEPT !.remaining = 0])

\* the broker delivers message i; the callback parses it and starts processing
Consume(i) ==
  /\ consumer
  /\ broker[i].state = "ready"
  /\ broker[i].hpc = "idle"
  /\ broker[i].deliveries < MaxDeliveries
  /\ LET d == [broker[i] EXCEPT !.state = "unacked", !.deliveries = @ + 1,
                                !.results = <<>>, !.rec = NoRecord] IN
     broker' =
       [broker EXCEPT ![i] =
          IF d.body = Garbage THEN SettleFailure(d, ParseError)
          ELSE IF EmailsFor(d.body) = 0 THEN SettleSuccess(d)
          ELSE [d EXCEPT !.hpc = "save", !.remaining = EmailsFor(d.body)]]
  /\ UNCHANGED <<cryptoVars, msgVars, now, ticks, emailVars, started, connection, channel, consumer>>

\* queueEmailRecord: the record is saved with sentAt null
QueueEmailRecord(i) ==
  /\ broker[i].hpc = "save"
  /\ LET id == QueueRecordId(i, broker[i].deliveries, broker[i].remaining) IN
     /\ emailRecords' = SaveRecord(emailRecords, id, 0)
     /\ broker' = [broker EXCEPT ![i].hpc = "find", ![i].rec = id]
  /\ UNCHANGED <<cryptoVars, msgVars, now, ticks, rateLimitCounter, rateLimitResetTime, windowSends, createCalls,
                 started, connection, channel, consumer>>

\* sendAndUpdateSentAt: the record is found; check the limit, then call the transport
SendCheck(i) ==
  /\ broker[i].hpc = "find"
  /\ rateLimitCounter' = resetRateLimit.counter
  /\ rateLimitResetTime' = resetRateLimit.resetTime
  /\ windowSends' = SendsAfterCheck
  /\ broker' =
       [broker EXCEPT ![i] =
          IF checkRateLimit THEN [@ EXCEPT !.hpc = "mail"]
                            ELSE AfterEmail(@, "refused")]
  /\ UNCHANGED <<cryptoVars, msgVars, now, ticks, emailRecords, createCalls,
                 started, connection, channel, consumer>>

\* faulty variant: the record is marked sent whatever the transport answers
MailResult_MarksSent(i, outcome) ==
  /\ broker[i].hpc = "mail"
  /\ rateLimitCounter' = CounterAfterFailure(rateLimitCounter, outcome)
  /\ windowSends' = SendsAfterResult(outcome)
  /\ emailRecords' = SaveRecord(emailRecords, broker[i].rec, now)
  /\ broker' = [broker EXCEPT ![i] = AfterEmail(@, outcome)]
  /\ UNCHANGED <<cryptoVars, msgVars, now, ticks, rateLimitResetTime, createCalls,
                 started, connection, channel, consumer>>

\* sendAndUpdateSentAt: the transport answers
MailResult(i, outcome) ==
  /\ broker[i].hpc = "mail"
  /\ windowSends' = SendsAfterResult(outcome)
  /\ IF outcome = "ok"
       THEN /\ rateLimitCounter' = IncrementCounter(rateLimitCounter)
            /\ broker' = [broker EXCEPT ![i].hpc = "update"]
       ELSE /\ rateLimitCounter' = CounterAfterFailure(rateLimitCounter, outcome)
            /\ broker' = [broker EXCEPT ![i] = AfterEmail(@, outcome)]
  /\ UNCHANGED <<cryptoVars, msgVars, now, ticks, rateLimitResetTime, emailRecords, createCalls,
                 started, connection, channel, consumer>>

\* sendAndUpdateSentAt: sentAt is saved after the successful send
UpdateSentAt(i) ==
  /\ broker[i].hpc = "update"
  /\ emailRecords' = SaveRecord(emailRecords, broker[i].rec, now)
  /\ broker' = [broker EXCEPT ![i] = AfterEmail(@, "ok")]
  /\ UNCHANGED <<cryptoVars, msgVars, now, ticks, rateLimitCounter, rateLimitResetTime, windowSends, createCalls,
                 started, connection, channel, consumer>>

(***************************************************************************)
(* Messaging: users, connections, conversations                            *)
(***************************************************************************)
\* users that connect over the websocket
Users == {"u1", "u2"}

\* a user id that takes part in no conversation
Outsider == "u3"

Sockets == {"s1", "s2"}

NoSocket == "none"

\* marks a request that arrived over HTTP (MessagingController) and has no socket
Http == "http"

Convs == {"c1", "c2"}

NoConv == "none"

UnknownConv == "c0"

\* a message id that is not in the Message table
UnknownMsg == 0


\* Conversation.userIds: both conversations are between u1 and u2
Participants(c) == {"u1", "u2"}

\* the sender-supplied contact fields of CreateMessageDto
ContactFields == {"senderName", "senderEmail", "recipientName", "recipientEmail"}

ContactInputs == {ContactFields, {"senderEmail", "recipientEmail"}, {}}

\* payloads with one or more contact fields missing: each one alone, the two names,
\* all four
IncompleteContacts ==
  {ContactFields \ {f} : f \in ContactFields} \cup {{"senderEmail", "recipientEmail"}, {}}

\* the message:send / POST messages payloads the model sends
SendInputs ==
  { [fromId |-> "u1", toId |-> "u2", conversationId |-> "c1"],
    [fromId |-> "u2", toId |-> "u1", conversationId |-> "c2"],
    [fromId |-> Outsider, toId |-> "u2", conversationId |-> "c1"],
    [fromId |-> "u1", toId |-> Outsider, conversationId |-> "c1"],
    [fromId |-> "u1", toId |-> "u2", conversationId |-> UnknownConv] }

\* socket.emit / server.to(socket).emit: nothing is sent without a socket
Emit(e, sock, ev, m) ==
  IF sock \in Sockets
    THEN LET key == <<sock, ev, m>> IN
         [k \in DOMAIN e \cup {key} |->
            IF k = key THEN (IF key \in DOMAIN e THEN e[key] + 1 ELSE 1) ELSE e[k]]
    ELSE e

Emitted(sock, ev, m) ==
  IF <<sock, ev, m>> \in DOMAIN emitted THEN emitted[<<sock, ev, m>>] ELSE 0

\* faulty variant: the catch block only logs the error
EmitError_LogOnly(e, client, m) == e

\* the catch block of a gateway handler: message:error to the requesting socket
EmitError(e, client, m) == Emit(e, client, "message:error", m)

\* how many message:error events socket sock has got
RECURSIVE CountIn(_, _)
CountIn(e, keys) ==
  IF keys = {} THEN 0
  ELSE LET k == CHOOSE x \in keys : TRUE IN e[k] + CountIn(e, keys \ {k})

ErrorsTo(e, sock) ==
  CountIn(e, {k \in DOMAIN e : k[1] = sock /\ k[2] = "message:error"})

\* everything that was emitted except message:error events
NonErrorEvents(e) ==
  [k \in {x \in DOMAIN e : x[2] # "message:error"} |-> e[k]]

(***************************************************************************)
(* MessagingGateway: presence registry and active-context tracker          *)
(***************************************************************************)
\* connectedUsers.get(userId)
SocketOf(u) ==
  IF \E i \in DOMAIN connectedUsers : connectedUsers[i].userId = u
    THEN (CHOOSE e \in Range(connectedUsers) : e.userId = u).socketId
    ELSE NoSocket

\* faulty variant: a second registration of a user adds a second entry
SetConnected_Appends(cu, u, s) == Append(cu, [userId |-> u, socketId |-> s])

\* connectedUsers.set(userId, socketId): a known key keeps its place in the Map
SetConnected(cu, u, s) ==
  IF \E i \in DOMAIN cu : cu[i].userId = u
    THEN [i \in DOMAIN cu |->
            IF cu[i].userId = u THEN [userId |-> u, socketId |-> s] ELSE cu[i]]
    ELSE Append(cu, [userId |-> u, socketId |-> s])

\* connectedUsers.delete of the entry at position i
DeleteAt(cu, i) ==
  [j \in 1..(Len(cu) - 1) |-> IF j < i THEN cu[j] ELSE cu[j + 1]]

\* faulty variant: the loop stops at the first entry, whatever its socket
FirstEntryOf_Any(s) == IF connectedUsers = <<>> THEN 0 ELSE 1

\* the first entry, in Map order, registered under socket s (0 if none)
FirstEntryOf(s) ==
  IF \E i \in DOMAIN connectedUsers : connectedUsers[i].socketId = s
    THEN CHOOSE i \in DOMAIN connectedUsers :
           /\ connectedUsers[i].socketId = s
           /\ \A j \in 1..(i - 1) : connectedUsers[j].socketId # s
    ELSE 0

\* the sockets replaced so far, after connectedUsers.set(u, s)
SupersededAfterSet(u, s) ==
  IF SocketOf(u) \in {NoSocket, s} THEN superseded
  ELSE [superseded EXCEPT ![u] = [socketId |-> SocketOf(u), disconnected |-> FALSE]]

\* the sockets replaced so far, after socket s disconnected
SupersededAfterDisconnect(s) ==
  [u \in Users |->
     IF superseded[u].socketId = s
       THEN [superseded[u] EXCEPT !.disconnected = TRUE]
       ELSE superseded[u]]

\* faulty variant: a user that registers is pushed its oldest unread message
HandleUserJoin_Redelivers(s, u) ==
  LET pending == {m \in DOMAIN messages :
                    messages[m].toId = u /\ messages[m].receivedAt = 0} IN
  /\ connectedUsers' = SetConnected(connectedUsers, u, s)
  /\ superseded' = SupersededAfterSet(u, s)
  /\ presenceBroadcast' = [presenceBroadcast EXCEPT ![u] = "online"]
  /\ emitted' =
       IF pending = {} THEN emitted
       ELSE Emit(emitted, s, "message:received",
                 CHOOSE m \in pending : \A n \in pending : m <= n)
  /\ UNCHANGED <<cryptoVars, now, ticks, emailVars, queueVars, activeConversations,
                 messages, readCalls, readOps, rejected>>

\* handleUserJoin
HandleUserJoin(s, u) ==
  /\ connectedUsers' = SetConnected(connectedUsers, u, s)
  /\ superseded' = SupersededAfterSet(u, s)
  /\ presenceBroadcast' = [presenceBroadcast EXCEPT ![u] = "online"]
  /\ UNCHANGED <<cryptoVars, now, ticks, emailVars, queueVars, activeConversations, chatVars>>

\* handleDisconnect: removes the first user registered under the socket, then breaks;
\* when no user is registered under the socket the loop ends without effect
HandleDisconnect(s) ==
  LET i == FirstEntryOf(s) IN
  /\ IF i # 0
       THEN /\ connectedUsers' = DeleteAt(connectedUsers, i)
            /\ activeConversations' =
                 [activeConversations EXCEPT ![connectedUsers[i].userId] = NoConv]
            /\ presenceBroadcast' =
                 [presenceBroadcast EXCEPT ![connectedUsers[i].userId] = "offline"]
       ELSE UNCHANGED <<connectedUsers, activeConversations, presenceBroadcast>>
  /\ superseded' = SupersededAfterDisconnect(s)
  /\ UNCHANGED <<cryptoVars, now, ticks, emailVars, queueVars, chatVars>>

\* handleConversationEnter: no presence check
HandleConversationEnter(s, u, c) ==
  /\ activeConversations[u] # c
  /\ activeConversations' = [activeConversations EXCEPT ![u] = c]
  /\ UNCHANGED <<cryptoVars, now, ticks, emailVars, queueVars, connectedUsers,
                 presenceBroadcast, superseded, chatVars>>

\* handleConversationLeave
HandleConversationLeave(s, u) ==
  /\ activeConversations[u] # NoConv
  /\ activeConversations' = [activeConversations EXCEPT ![u] = NoConv]
  /\ UNCHANGED <<cryptoVars, now, ticks, emailVars, queueVars, connectedUsers,
                 presenceBroadcast, superseded, chatVars>>

\* the confirmations POST api/confirmation/broadcast is called with
Confirmations == {1}

\* the payload { conversationId, confirmation } of a confirmation_updated event
ConfirmationKey(c, x) == 10 * (IF c = "c1" THEN 1 ELSE 2) + x

\* faulty variant: every registered user is a target, whatever it is viewing
BroadcastTargets_AllPresent(c) == {u \in Users : SocketOf(u) # NoSocket}

\* the users the loop of broadcastConfirmationUpdate emits for: active conversation c
\* and a socket in connectedUsers
BroadcastTargets(c) ==
  {u \in Users : activeConversations[u] = c /\ SocketOf(u) # NoSocket}

\* server.to(socketId).emit('confirmation_updated', ...) for each of the users
RECURSIVE EmitToEach(_, _, _)
EmitToEach(e, users, key) ==
  IF users = {} THEN e
  ELSE LET u == CHOOSE x \in users : TRUE IN
       EmitToEach(Emit(e, SocketOf(u), "confirmation_updated", key), users \ {u}, key)

\* broadcastConfirmationUpdate(conversationId, confirmation)
BroadcastConfirmationUpdate(c, x) ==
  /\ \A s \in Sockets : Emitted(s, "confirmation_updated", ConfirmationKey(c, x)) < MaxBroadcasts
  /\ emitted' = EmitToEach(emitted, BroadcastTargets(c), ConfirmationKey(c, x))
  /\ UNCHANGED <<cryptoVars, now, ticks, emailVars, queueVars, presenceVars, messages,
                 readCalls, readOps, rejected>>

(***************************************************************************)
(* MessagingService / MessageService: send                                 *)
(***************************************************************************)
\* faulty variant: only the existence of the conversation is tested
SendError_ConversationOnly(inp) ==
  IF inp.conversationId \notin Convs THEN "NotFound" ELSE "none"

\* MessagingService.sendMessage: the conversation exists and both ids take part
SendError(inp) ==
  IF inp.conversationId \notin Convs THEN "NotFound"
  ELSE IF inp.fromId \notin Participants(inp.conversationId)
          \/ inp.toId \notin Participants(inp.conversationId) THEN "BadRequest"
  ELSE "none"

\* faulty variant: only the two addresses are tested
ContactComplete_AddressesOnly(contact) == {"senderEmail", "recipientEmail"} \subseteq contact

\* MessageService.sendMessage: the deferred check is scheduled only with all four
\* contact fields
ContactComplete(contact) == ContactFields \subseteq contact

\* the row MessageService.sendMessage saves, with the state of its send handler
\* (spc), of its deferred check (timer) and what the properties observe
NewMessage(inp, contact, client) ==
  [fromId |-> inp.fromId, toId |-> inp.toId, conversationId |-> inp.conversationId,
   receivedAt |-> 0,
   client |-> client,
   spc |-> IF client = Http THEN "done" ELSE "saved",
   rsock |-> NoSocket,
   ats |-> 0,
   timer |-> IF ContactComplete(contact) THEN "pending" ELSE "none",
   seen |-> 0,
   contact |-> ContactComplete(contact),
   viewing |-> (SocketOf(inp.toId) # NoSocket
                /\ activeConversations[inp.toId] = inp.conversationId),
   readAtCheck |-> FALSE,
   upAtPublish |-> FALSE,
   published |-> 0,
   autoRead |-> 0,
   setBy |-> {}]

\* message:send (client is a socket) or POST messages (client is Http): validate,
\* save, schedule the deferred check
SendMessage(client, inp, contact) ==
  /\ IF SendError(inp) # "none"
       THEN /\ rejected < MaxRejected
            /\ rejected' = rejected + 1
            /\ emitted' = EmitError(emitted, client, 0)
            /\ UNCHANGED messages
       ELSE /\ Len(messages) < MaxMsgs
            /\ messages' = Append(messages, NewMessage(inp, contact, client))
            /\ UNCHANGED <<rejected, emitted>>
  /\ UNCHANGED <<cryptoVars, now, ticks, emailVars, queueVars, presenceVars, readCalls, readOps>>

\* faulty variant: the recipient gets the message, the sender gets no confirmation
DeliverEmits_NoAck(e, msg, m, recipientSocketId) ==
  Emit(e, recipientSocketId, "message:received", m)

\* message:sent to the sender's socket, then message:received to the recipient's
\* socket if connectedUsers has one
DeliverEmits(e, msg, m, recipientSocketId) ==
  Emit(Emit(e, msg.client, "message:sent", m), recipientSocketId, "message:received", m)

\* handleSendMessage after the save: ack to the sender, push to the recipient, and
\* start the auto-read when the recipient is viewing the conversation
WsSendDeliver(m) ==
  LET msg == messages[m]
      recipientSocketId == SocketOf(msg.toId) IN
  /\ msg.spc = "saved"
  /\ emitted' = DeliverEmits(emitted, msg, m, recipientSocketId)
  /\ messages' =
       [messages EXCEPT ![m] =
          IF recipientSocketId # NoSocket
             /\ activeConversations[msg.toId] = msg.conversationId
            THEN [@ EXCEPT !.spc = "autofind", !.rsock = recipientSocketId]
            ELSE [@ EXCEPT !.spc = "done"]]
  /\ UNCHANGED <<cryptoVars, now, ticks, emailVars, queueVars, presenceVars, readCalls,
                 readOps, rejected>>

(***************************************************************************)
(* MessageService.markMessageAsRead / markConversationAsRead               *)
(***************************************************************************)
\* faulty variant: the recipient check is missing
IsRecipient_Any(msg, userId) == TRUE

\* only the recipient can mark a message as read
IsRecipient(msg, userId) == msg.toId = userId

\* faulty variant: every call stamps the message again
NeedsWrite_Always(msg) == TRUE

\* the exception markMessageAsRead throws for message id m and requester userId
MarkReadError(m, userId) ==
  IF m \notin DOMAIN messages THEN "NotFound"
  ELSE IF ~IsRecipient(messages[m], userId) THEN "BadRequest"
  ELSE "none"

\* "update receivedAt if not already set", as decided on the row that was read
NeedsWrite(msg) == msg.receivedAt = 0

\* faulty variant: a read clears the timer of a check that has not fired yet
WriteReceivedAt_CancelsCheck(msg, t, userId) ==
  [msg EXCEPT !.receivedAt = t, !.setBy = @ \cup {userId},
              !.timer = IF @ = "pending" THEN "none" ELSE @]

\* messageRepository.save(message): the row gets the receivedAt the caller computed
WriteReceivedAt(msg, t, userId) ==
  [msg EXCEPT !.receivedAt = t, !.setBy = @ \cup {userId}]

\* the receivedAt of the DTO markMessageAsRead returns for the row it read at time t
MarkReadResult(msg, t) == IF NeedsWrite(msg) THEN t ELSE msg.receivedAt

\* the auto-read of handleSendMessage has marked the message: receipt to the sender,
\* notice to the recipient
AutoReadDone(msg) == [msg EXCEPT !.spc = "done", !.autoRead = @ + 1]

\* faulty variant: the recipient gets no auto-read notice
AutoReadEmits_NoNotice(e, msg, m) == Emit(e, msg.client, "message:read-receipt", m)

AutoReadEmits(e, msg, m) ==
  Emit(Emit(e, msg.client, "message:read-receipt", m), msg.rsock, "message:auto-read", m)

\* auto-read: markMessageAsRead has read the row
AutoReadFind(m) ==
  LET msg == messages[m] IN
  /\ msg.spc = "autofind"
  /\ IF NeedsWrite(msg)
       THEN /\ messages' = [messages EXCEPT ![m].spc = "autosave", ![m].ats = now]
            /\ UNCHANGED emitted
       ELSE /\ messages' = [messages EXCEPT ![m] = AutoReadDone(@)]
            /\ emitted' = AutoReadEmits(emitted, msg, m)
  /\ UNCHANGED <<cryptoVars, now, ticks, emailVars, queueVars, presenceVars, readCalls,
                 readOps, rejected>>

\* auto-read: the save lands, the handler emits
AutoReadSave(m) ==
  LET msg == messages[m] IN
  /\ msg.spc = "autosave"
  /\ messages' =
       [messages EXCEPT ![m] = AutoReadDone(WriteReceivedAt(@, msg.ats, msg.toId))]
  /\ emitted' = AutoReadEmits(emitted, msg, m)
  /\ UNCHANGED <<cryptoVars, now, ticks, emailVars, queueVars, presenceVars, readCalls,
                 readOps, rejected>>

\* handleMarkMessageRead after markMessageAsRead returned: receipt to the sender if
\* online, confirmation to the caller (nothing is emitted for an HTTP request)
MarkReadEmits(e, client, msg, m) ==
  IF client = Http THEN e
  ELSE Emit(Emit(e, SocketOf(msg.fromId), "message:read-receipt", m),
            client, "message:marked-read", m)

\* message:mark-read (client is a socket) or PATCH messages/:id/mark-read (Http):
\* markMessageAsRead reads the row and decides
MarkRead(client, m, userId) ==
  /\ readOps < MaxReadOps
  /\ readOps' = readOps + 1
  /\ IF m \notin DOMAIN messages
       THEN /\ emitted' = EmitError(emitted, client, 0)
            /\ UNCHANGED <<messages, readCalls>>
     ELSE IF ~IsRecipient(messages[m], userId)
       THEN /\ emitted' = EmitError(emitted, client, m)
            /\ UNCHANGED <<messages, readCalls>>
     ELSE IF NeedsWrite(messages[m])
       THEN /\ readCalls' =
                 readCalls \cup {[client |-> client, msg |-> m, userId |-> userId,
                                  ts |-> now]}
            /\ UNCHANGED <<messages, emitted>>
     ELSE /\ emitted' = MarkReadEmits(emitted, client, messages[m], m)
          /\ UNCHANGED <<messages, readCalls>>
  /\ UNCHANGED <<cryptoVars, now, ticks, emailVars, queueVars, presenceVars, rejected>>

\* markMessageAsRead: the save lands, the caller emits
MarkReadSave(c) ==
  /\ c \in readCalls
  /\ readCalls' = readCalls \ {c}
  /\ messages' = [messages EXCEPT ![c.msg] = WriteReceivedAt(@, c.ts, c.userId)]
  /\ emitted' = MarkReadEmits(emitted, c.client, messages[c.msg], c.msg)
  /\ UNCHANGED <<cryptoVars, now, ticks, emailVars, queueVars, presenceVars, readOps, rejected>>

\* MessagingService.markConversationAsRead: the conversation exists and the user
\* takes part
MarkConversationError(c, userId) ==
  IF c \notin Convs THEN "NotFound"
  ELSE IF userId \notin Participants(c) THEN "BadRequest"
  ELSE "none"

\* faulty variant: the UPDATE has no conversation condition
BulkMatches_AnyConversation(msg, c, userId) == msg.toId = userId /\ msg.receivedAt = 0

\* the rows the UPDATE of MessageService.markConversationAsRead matches
BulkMatches(msg, c, userId) ==
  msg.conversationId = c /\ msg.toId = userId /\ msg.receivedAt = 0

\* conversation:mark-read (socket) or PATCH conversations/:id/mark-read (Http)
MarkConversationRead(client, c, userId) ==
  /\ readOps < MaxReadOps
  /\ readOps' = readOps + 1
  /\ IF MarkConversationError(c, userId) # "none"
       THEN /\ emitted' = EmitError(emitted, client, 0)
            /\ UNCHANGED messages
       ELSE /\ messages' =
                 [m \in DOMAIN messages |->
                    IF BulkMatches(messages[m], c, userId)
                      THEN WriteReceivedAt(messages[m], now, userId)
                      ELSE messages[m]]
            /\ emitted' = Emit(emitted, client, "conversation:marked-read", 0)
  /\ UNCHANGED <<cryptoVars, now, ticks, emailVars, queueVars, presenceVars, readCalls, rejected>>

(***************************************************************************)
(* Deferred read check and the publisher                                   *)
(***************************************************************************)
\* faulty variant: the check looks at the entity saved at send time instead of re-fetching
CheckSeen_Stale(m) == 0

\* the receivedAt the check works with: re-fetched from the Message table
CheckSeen(m) == messages[m].receivedAt

\* faulty variant: the check is scheduled with setInterval and fires again
TimerAfterCheck_Repeats == "pending"

\* the timer of setTimeout fires once
TimerAfterCheck == "done"

\* publishEmailEvent: dropped without a channel or a connection
CanPublish == channel /\ connection

\* publishEmailEvent: the routing key an event of the given type is published under
RoutingKey(type) == "email.message.review"

\* faulty variant: the availability guard is missing
PublishEmailEvent_NoGuard(q, m) == Append(q, NewQueueMessage("NEW_MESSAGE_OR_REVIEW", m, RoutingKey("NEW_MESSAGE_OR_REVIEW")))

\* faulty variant: only the connection is tested, not the channel
PublishEmailEvent_ConnectionOnly(q, m) ==
  IF connection THEN Append(q, NewQueueMessage("NEW_MESSAGE_OR_REVIEW", m, RoutingKey("NEW_MESSAGE_OR_REVIEW"))) ELSE q

\* the queue after publishEmailEvent for message m
PublishEmailEvent(q, m) ==
  IF CanPublish THEN Append(q, NewQueueMessage("NEW_MESSAGE_OR_REVIEW", m, RoutingKey("NEW_MESSAGE_OR_REVIEW"))) ELSE q

\* the timer fires and the check re-reads the message
CheckRead(m) ==
  /\ messages[m].timer = "pending"
  /\ messages' =
       [messages EXCEPT ![m].timer = "fetched", ![m].seen = CheckSeen(m),
                        ![m].readAtCheck = (messages[m].receivedAt # 0)]
  /\ UNCHANGED <<cryptoVars, now, ticks, emailVars, queueVars, presenceVars, readCalls,
                 readOps, rejected, emitted>>

\* the check decides on what it read: skip when read, publish when unread
CheckDecide(m) ==
  /\ messages[m].timer = "fetched"
  /\ IF messages[m].seen # 0
       THEN /\ messages' = [messages EXCEPT ![m].timer = TimerAfterCheck]
            /\ UNCHANGED broker
       ELSE /\ broker' = PublishEmailEvent(broker, m)
            /\ messages' =
                 [messages EXCEPT ![m].timer = TimerAfterCheck,
                                  ![m].upAtPublish = CanPublish,
                                  ![m].published = @ + Len(broker') - Len(broker)]
  /\ UNCHANGED <<cryptoVars, now, ticks, emailVars, connVars, presenceVars, readCalls,
                 readOps, rejected, emitted>>

\* faulty variant: the failure of the check is reported to the sender's socket
CheckFail_Surfaces(m) ==
  /\ messages[m].timer = "pending"
  /\ messages' = [messages EXCEPT ![m].timer = TimerAfterCheck]
  /\ emitted' = EmitError(emitted, messages[m].client, m)
  /\ UNCHANGED <<cryptoVars, now, ticks, emailVars, queueVars, presenceVars, readCalls,
                 readOps, rejected>>

\* the timer fires and the re-fetch of the message throws: the catch inside the
\* timer callback logs the error and the check ends
CheckFail(m) ==
  /\ messages[m].timer = "pending"
  /\ messages' = [messages EXCEPT ![m].timer = TimerAfterCheck]
  /\ UNCHANGED <<cryptoVars, now, ticks, emailVars, queueVars, presenceVars, readCalls,
                 readOps, rejected, emitted>>

\* publishEmailEvent(event) called with an event of the given type
PublishTyped(type) ==
  /\ Len(broker) < MaxExternal
  /\ broker' =
       IF CanPublish THEN Append(broker, NewQueueMessage(type, 0, RoutingKey(type)))
                     ELSE broker
  /\ UNCHANGED <<cryptoVars, msgVars, now, ticks, emailVars, connVars>>

(***************************************************************************)
(* Time                                                                    *)
(***************************************************************************)
Tick(d) ==
  /\ ticks < MaxTicks
  /\ now' = now + d
  /\ ticks' = ticks + 1
  /\ UNCHANGED <<cryptoVars, msgVars, emailVars, queueVars>>

(***************************************************************************)
(* CryptoService: texts are sequences of characters                        *)
(***************************************************************************)
\* the characters of the plaintexts, the separator character among them
Alphabet == <<"a", "b", ":">>

\* the characters base64 text is made of (none of them is a colon)
Base64 == <<"A", "B", "C", "D">>

Plaintexts == UNION {[1..n -> Range(Alphabet)] : n \in 0..MaxLen}

\* randomBytes(16).toString('base64') for the salt, randomBytes(16) for the iv
Salts == {<<"A", "B">>, <<"C", "D">>}

IVs == {<<"B">>, <<"D">>}

MasterSecret == 3

IndexIn(alphabet, ch) == CHOOSE i \in DOMAIN alphabet : alphabet[i] = ch

RECURSIVE SumOf(_, _)
SumOf(alphabet, t) ==
  IF t = <<>> THEN 0 ELSE IndexIn(alphabet, Head(t)) + SumOf(alphabet, Tail(t))

\* deriveKey(salt): a digest of the master secret followed by the salt
deriveKey(salt) == (MasterSecret + 2 * SumOf(Base64, salt)) % Len(Base64)

\* the cipher: every character is shifted by the key, the iv and its position
Cipher(key, iv, t) ==
  [i \in DOMAIN t |->
     Base64[((IndexIn(Alphabet, t[i]) - 1 + key + SumOf(Base64, iv) + i) % Len(Base64)) + 1]]

\* cipher.getAuthTag(): a digest of the key and of the encrypted content
AuthTag(key, content) == <<Base64[((key + SumOf(Base64, content)) % Len(Base64)) + 1]>>

\* the position in Alphabet the decipher gets for character i (0 = not a character)
Deciphered(key, iv, content, i) ==
  LET x == ((IndexIn(Base64, content[i]) - 1 - key - SumOf(Base64, iv) - i) % Len(Base64)) + 1
  IN  IF x \in DOMAIN Alphabet THEN x ELSE 0

Quoted(t) == <<"\"">> \o t \o <<"\"">>

\* JSON.stringify of an EncryptedData object
JsonStringify(d) ==
  <<"{">> \o Quoted(<<"i", "v">>) \o <<":">> \o Quoted(d.iv) \o <<",">>
    \o Quoted(<<"t", "a", "g">>) \o <<":">> \o Quoted(d.tag) \o <<",">>
    \o Quoted(<<"c", "o", "n", "t", "e", "n", "t">>) \o <<":">> \o Quoted(d.content)
    \o <<"}">>

Base64Texts(n) == UNION {[1..k -> Range(Base64)] : k \in 0..n}

\* the EncryptedData objects whose JSON text the model can meet
EncryptedDataObjects ==
  [iv : Base64Texts(1), tag : Base64Texts(1), content : Base64Texts(MaxLen)]

\* JSON.parse(t) succeeds on the JSON text of an object and throws on other text
JsonParses(t) == \E d \in EncryptedDataObjects : JsonStringify(d) = t

JsonParse(t) == CHOOSE d \in EncryptedDataObjects : JsonStringify(d) = t

\* String.prototype.split with a one-character separator
RECURSIVE SplitFrom(_, _, _, _)
SplitFrom(t, sep, i, part) ==
  IF i > Len(t) THEN <<part>>
  ELSE IF t[i] = sep THEN <<part>> \o SplitFrom(t, sep, i + 1, <<>>)
  ELSE SplitFrom(t, sep, i + 1, Append(part, t[i]))

split(t, sep) == SplitFrom(t, sep, 1, <<>>)

\* encrypt(plaintext) with the salt and the iv that randomBytes returned
encrypt(p, salt, iv) ==
  LET key == deriveKey(salt)
      content == Cipher(key, iv, p)
  IN  salt \o <<":">> \o
        JsonStringify([iv |-> iv, tag |-> AuthTag(key, content), content |-> content])

\* what a call returned, or that it threw
NoResult == [st |-> "none", text |-> <<>>]

Returned(t) == [st |-> "returned", text |-> t]

Threw == [st |-> "threw", text |-> <<>>]

\* decrypt(encryptedText): two parts wanted, then parse, then authenticate and decipher
decrypt(t) ==
  LET parts == split(t, ":")
  IN  IF Len(parts) # 2 THEN Threw
      ELSE IF ~JsonParses(parts[2]) THEN Threw
      ELSE LET d == JsonParse(parts[2])
               key == deriveKey(parts[1])
           IN  IF d.iv = <<>> \/ d.tag # AuthTag(key, d.content) THEN Threw
               ELSE IF \E i \in DOMAIN d.content : Deciphered(key, d.iv, d.content, i) = 0
                      THEN Threw
               ELSE Returned([i \in DOMAIN d.content |->
                                Alphabet[Deciphered(key, d.iv, d.content, i)]])

\* isEncrypted(content): two parts, the second of which parses as JSON
isEncrypted(t) ==
  LET parts == split(t, ":")
  IN  Len(parts) = 2 /\ JsonParses(parts[2])

Encrypt(p, salt, iv) ==
  /\ encryptedText = <<>>
  /\ plaintext' = p
  /\ encryptedText' = encrypt(p, salt, iv)
  /\ UNCHANGED <<now, ticks, emailVars, queueVars, msgVars, decrypted, detected>>

Decrypt ==
  /\ encryptedText # <<>>
  /\ decrypted = NoResult
  /\ decrypted' = decrypt(encryptedText)
  /\ UNCHANGED <<now, ticks, emailVars, queueVars, msgVars, plaintext, encryptedText,
                 detected>>

IsEncrypted ==
  /\ encryptedText # <<>>
  /\ detected = "none"
  /\ detected' = IF isEncrypted(encryptedText) THEN "true" ELSE "false"
  /\ UNCHANGED <<now, ticks, emailVars, queueVars, msgVars, plaintext, encryptedText,
                 decrypted>>

(***************************************************************************)
(* Specifications                                                          *)
(***************************************************************************)
\* everything but the number of e-mails sent so far in the current window
InitServices ==
  /\ now = 1
  /\ ticks = 0
  /\ rateLimitResetTime = 1 + RATE_LIMIT_WINDOW
  /\ windowSends = [sent |-> rateLimitCounter, forced |-> FALSE]
  /\ emailRecords = [x \in {} |-> [sentAt |-> 0]]
  /\ createCalls = [k \in CreateCallIds |-> [pc |-> "idle", result |-> "none"]]
  /\ started = FALSE
  /\ connection = FALSE
  /\ channel = FALSE
  /\ consumer = FALSE
  /\ broker = <<>>
  /\ connectedUsers = <<>>
  /\ activeConversations = [u \in Users |-> NoConv]
  /\ presenceBroadcast = [u \in Users |-> "none"]
  /\ superseded = [u \in Users |-> [socketId |-> NoSocket, disconnected |-> FALSE]]
  /\ messages = <<>>
  /\ readCalls = {}
  /\ readOps = 0
  /\ rejected = 0
  /\ emitted = [k \in {} |-> 0]
  /\ plaintext = <<>>
  /\ encryptedText = <<>>
  /\ decrypted = NoResult
  /\ detected = "none"

Init == rateLimitCounter = 0 /\ InitServices

\* the service early in a window, or after DAILY_EMAIL_LIMIT - 1 successful sends
\* in the current window
SentInWindow == {0, DAILY_EMAIL_LIMIT - 1}

InitLimiter == rateLimitCounter \in SentInWindow /\ InitServices

\* CryptoService: one text encrypted, then decrypted and tested
NextCrypto ==
  \/ \E p \in Plaintexts, salt \in Salts, iv \in IVs : Encrypt(p, salt, iv)
  \/ Decrypt
  \/ IsEncrypted

SpecCrypto == Init /\ [][NextCrypto]_vars

\* the notification pipeline: queue, consumer, dispatcher, rate limiter
NextQueue ==
  \/ Tick(WindowElapsed)
  \/ \E o \in ConnectOutcomes, c \in BOOLEAN : OnModuleInit(o, c)
  \/ ConnectionLost
  \/ ChannelLost
  \/ \E b \in ExternalBodies : ExternalPublish(b)
  \/ \E i \in DOMAIN broker : Consume(i)
  \/ \E i \in DOMAIN broker : QueueEmailRecord(i)
  \/ \E i \in DOMAIN broker : SendCheck(i)
  \/ \E i \in DOMAIN broker, o \in MailOutcomes : MailResult(i, o)
  \/ \E i \in DOMAIN broker : UpdateSentAt(i)
  \/ \E k \in CreateCallIds : CreateEmailStart(k)
  \/ \E k \in CreateCallIds, o \in MailOutcomes : CreateEmailResult(k, o)
  \/ \E k \in CreateCallIds : CreateEmailSave(k)

SpecQueue == Init /\ [][NextQueue]_vars

\* the consumer and the dispatcher alone: no HTTP createEmail call, no clock advance
NextConsumer ==
  \/ \E o \in ConnectOutcomes, c \in BOOLEAN : OnModuleInit(o, c)
  \/ ConnectionLost
  \/ ChannelLost
  \/ \E b \in ExternalBodies : ExternalPublish(b)
  \/ \E i \in DOMAIN broker : Consume(i)
  \/ \E i \in DOMAIN broker : QueueEmailRecord(i)
  \/ \E i \in DOMAIN broker : SendCheck(i)
  \/ \E i \in DOMAIN broker, o \in MailOutcomes : MailResult(i, o)
  \/ \E i \in DOMAIN broker : UpdateSentAt(i)

SpecConsumer == Init /\ [][NextConsumer]_vars

\* the rate limiter under sends of the queue handler and of createEmail, with a
\* broker that stays up: the window elapses, the provider accepts, rejects for quota
\* or fails
LimiterBodies == {"BOOKING_CONFIRMATION"}

LimiterOutcomes == {"ok", "quota", "transient"}

NextLimiter ==
  \/ Tick(WindowElapsed)
  \/ OnModuleInit("ok", TRUE)
  \/ \E b \in LimiterBodies : ExternalPublish(b)
  \/ \E i \in DOMAIN broker : Consume(i)
  \/ \E i \in DOMAIN broker : QueueEmailRecord(i)
  \/ \E i \in DOMAIN broker : SendCheck(i)
  \/ \E i \in DOMAIN broker, o \in LimiterOutcomes : MailResult(i, o)
  \/ \E i \in DOMAIN broker : UpdateSentAt(i)
  \/ \E k \in CreateCallIds : CreateEmailStart(k)
  \/ \E k \in CreateCallIds, o \in LimiterOutcomes : CreateEmailResult(k, o)
  \/ \E k \in CreateCallIds : CreateEmailSave(k)

SpecLimiter == InitLimiter /\ [][NextLimiter]_vars

\* the publisher called with events of every kind, next to the consumer
NextPublish ==
  \/ \E o \in ConnectOutcomes, c \in BOOLEAN : OnModuleInit(o, c)
  \/ ConnectionLost
  \/ ChannelLost
  \/ \E t \in EventTypes : PublishTyped(t)
  \/ \E b \in ExternalBodies : ExternalPublish(b)
  \/ \E i \in DOMAIN broker : Consume(i)
  \/ \E i \in DOMAIN broker : QueueEmailRecord(i)
  \/ \E i \in DOMAIN broker : SendCheck(i)
  \/ \E i \in DOMAIN broker, o \in MailOutcomes : MailResult(i, o)
  \/ \E i \in DOMAIN broker : UpdateSentAt(i)

SpecPublish == Init /\ [][NextPublish]_vars

\* the inputs of the read protocol: valid sends over the websocket or over HTTP
\* without contact metadata, mark-read requests of any user
ValidSendInputs == {[fromId |-> "u1", toId |-> "u2", conversationId |-> "c1"]}

SendClients == {"s1", Http}

ReadClients == {"s2", Http}

\* the users whose presence the send and read handlers look up (the recipients), and
\* the sockets they join with
Viewers == {"u2"}

ViewerSockets == {"s2"}

\* the conversations the recipient enters while a deferred check is pending
NotifyConvs == {"c1"}

\* the realtime protocol: presence, send, auto-read, mark-read
NextRead ==
  \/ Tick(1)
  \/ \E s \in ViewerSockets, u \in Viewers : HandleUserJoin(s, u)
  \/ \E s \in ViewerSockets : HandleDisconnect(s)
  \/ \E s \in ViewerSockets, u \in Viewers, c \in Convs : HandleConversationEnter(s, u, c)
  \/ \E s \in ViewerSockets, u \in Viewers : HandleConversationLeave(s, u)
  \/ \E cl \in SendClients, inp \in ValidSendInputs : SendMessage(cl, inp, {})
  \/ \E m \in DOMAIN messages : WsSendDeliver(m)
  \/ \E m \in DOMAIN messages : AutoReadFind(m)
  \/ \E m \in DOMAIN messages : AutoReadSave(m)
  \/ \E cl \in ReadClients, m \in DOMAIN messages \cup {UnknownMsg},
        u \in Users \cup {Outsider} :
       MarkRead(cl, m, u)
  \/ \E c \in readCalls : MarkReadSave(c)
  \/ \E cl \in ReadClients, c \in Convs \cup {UnknownConv}, u \in Users \cup {Outsider} :
       MarkConversationRead(cl, c, u)

SpecRead == Init /\ [][NextRead]_vars

\* the deferred read check and the publisher, with the reads that race with it
NextNotify ==
  \/ \E o \in ConnectOutcomes, c \in BOOLEAN : OnModuleInit(o, c)
  \/ ConnectionLost
  \/ ChannelLost
  \/ \E s \in ViewerSockets, u \in Viewers : HandleUserJoin(s, u)
  \/ \E s \in ViewerSockets : HandleDisconnect(s)
  \/ \E s \in ViewerSockets, u \in Viewers, c \in NotifyConvs : HandleConversationEnter(s, u, c)
  \/ \E s \in ViewerSockets, u \in Viewers : HandleConversationLeave(s, u)
  \/ \E cl \in SendClients, inp \in ValidSendInputs, ct \in ContactInputs :
       SendMessage(cl, inp, ct)
  \/ \E m \in DOMAIN messages : WsSendDeliver(m)
  \/ \E m \in DOMAIN messages : AutoReadFind(m)
  \/ \E m \in DOMAIN messages : AutoReadSave(m)
  \/ \E m \in DOMAIN messages, u \in Users : MarkRead(Http, m, u)
  \/ \E c \in readCalls : MarkReadSave(c)
  \/ \E c \in NotifyConvs, u \in Users : MarkConversationRead(Http, c, u)
  \/ \E m \in DOMAIN messages : CheckRead(m)
  \/ \E m \in DOMAIN messages : CheckDecide(m)

SpecNotify == Init /\ [][NextNotify]_vars

\* the mark-read operations of the two participants on messages sent over the socket
\* or over HTTP, with a recipient that joins and enters the conversation
NextMark ==
  \/ Tick(1)
  \/ \E s \in ViewerSockets, u \in Viewers : HandleUserJoin(s, u)
  \/ \E s \in ViewerSockets, u \in Viewers, c \in NotifyConvs :
       HandleConversationEnter(s, u, c)
  \/ \E cl \in SendClients, inp \in ValidSendInputs : SendMessage(cl, inp, {})
  \/ \E m \in DOMAIN messages : WsSendDeliver(m)
  \/ \E m \in DOMAIN messages : AutoReadFind(m)
  \/ \E m \in DOMAIN messages : AutoReadSave(m)
  \/ \E cl \in ReadClients, m \in DOMAIN messages, u \in Users : MarkRead(cl, m, u)
  \/ \E c \in readCalls : MarkReadSave(c)
  \/ \E cl \in ReadClients, c \in Convs, u \in Users : MarkConversationRead(cl, c, u)

SpecMark == Init /\ [][NextMark]_vars

\* the consumer with two events on the work queue: one published by another service,
\* one by the deferred check of a chat message sent over HTTP with contact metadata
NextDeliveries ==
  \/ OnModuleInit("ok", TRUE)
  \/ \E b \in LimiterBodies : ExternalPublish(b)
  \/ \E inp \in ValidSendInputs : SendMessage(Http, inp, ContactFields)
  \/ \E m \in DOMAIN messages : CheckRead(m)
  \/ \E m \in DOMAIN messages : CheckDecide(m)
  \/ \E i \in DOMAIN broker : Consume(i)
  \/ \E i \in DOMAIN broker : QueueEmailRecord(i)
  \/ \E i \in DOMAIN broker : SendCheck(i)
  \/ \E i \in DOMAIN broker, o \in LimiterOutcomes : MailResult(i, o)
  \/ \E i \in DOMAIN broker : UpdateSentAt(i)

SpecDeliveries == Init /\ [][NextDeliveries]_vars

\* the chat served while the broker is unavailable or lost: start with every outcome,
\* sends with contact metadata, explicit reads, deferred checks
NextOutage ==
  \/ \E o \in ConnectOutcomes, c \in BOOLEAN : OnModuleInit(o, c)
  \/ ConnectionLost
  \/ ChannelLost
  \/ \E cl \in SendClients, inp \in ValidSendInputs : SendMessage(cl, inp, ContactFields)
  \/ \E m \in DOMAIN messages : WsSendDeliver(m)
  \/ \E m \in DOMAIN messages, u \in Users : MarkRead(Http, m, u)
  \/ \E c \in readCalls : MarkReadSave(c)
  \/ \E c \in NotifyConvs, u \in Users : MarkConversationRead(Http, c, u)
  \/ \E m \in DOMAIN messages : CheckRead(m)
  \/ \E m \in DOMAIN messages : CheckDecide(m)

SpecOutage == Init /\ [][NextOutage]_vars

\* valid and invalid sends with contact metadata, over the socket and over HTTP
NextValidate ==
  \/ \E o \in ConnectOutcomes : OnModuleInit(o, TRUE)
  \/ \E s \in ViewerSockets, u \in Viewers : HandleUserJoin(s, u)
  \/ \E cl \in SendClients, inp \in SendInputs : SendMessage(cl, inp, ContactFields)
  \/ \E m \in DOMAIN messages : WsSendDeliver(m)
  \/ \E m \in DOMAIN messages : CheckRead(m)
  \/ \E m \in DOMAIN messages : CheckDecide(m)

SpecValidate == Init /\ [][NextValidate]_vars

\* sends with complete and with incomplete contact metadata, and their deferred checks
NextContact ==
  \/ \E o \in ConnectOutcomes : OnModuleInit(o, TRUE)
  \/ ChannelLost
  \/ \E s \in ViewerSockets, u \in Viewers : HandleUserJoin(s, u)
  \/ \E cl \in SendClients, inp \in ValidSendInputs,
        ct \in IncompleteContacts \cup {ContactFields} :
       SendMessage(cl, inp, ct)
  \/ \E m \in DOMAIN messages : WsSendDeliver(m)
  \/ \E m \in DOMAIN messages : CheckRead(m)
  \/ \E m \in DOMAIN messages : CheckDecide(m)

SpecContact == Init /\ [][NextContact]_vars

\* the sockets that send and that mark in the error scenarios
WsSendClients == {"s1"}

WsReadClients == {"s2"}

\* a chat message sent over the socket with contact metadata, followed down the
\* whole notification path: deferred check, publisher, consumer, mail transport,
\* each of which can fail
NextPipeline ==
  \/ \E o \in ConnectOutcomes : OnModuleInit(o, TRUE)
  \/ ConnectionLost
  \/ ChannelLost
  \/ \E u \in Viewers, sk \in ViewerSockets : HandleUserJoin(sk, u)
  \/ \E cl \in WsSendClients, inp \in ValidSendInputs : SendMessage(cl, inp, ContactFields)
  \/ \E m \in DOMAIN messages : WsSendDeliver(m)
  \/ \E m \in DOMAIN messages : CheckRead(m)
  \/ \E m \in DOMAIN messages : CheckFail(m)
  \/ \E m \in DOMAIN messages : CheckDecide(m)
  \/ \E i \in DOMAIN broker : Consume(i)
  \/ \E i \in DOMAIN broker : QueueEmailRecord(i)
  \/ \E i \in DOMAIN broker : SendCheck(i)
  \/ \E i \in DOMAIN broker, o \in MailOutcomes : MailResult(i, o)
  \/ \E i \in DOMAIN broker : UpdateSentAt(i)

SpecPipeline == Init /\ [][NextPipeline]_vars

\* the requests the gateway handlers refuse, next to the ones they serve: sends of an
\* outsider or into an unknown conversation, mark-read requests for unknown ids or
\* by users that are not entitled
NextErrors ==
  \/ \E s \in ViewerSockets, u \in Viewers : HandleUserJoin(s, u)
  \/ \E s \in ViewerSockets, u \in Viewers, c \in NotifyConvs :
       HandleConversationEnter(s, u, c)
  \/ \E cl \in WsSendClients, inp \in SendInputs : SendMessage(cl, inp, {})
  \/ \E m \in DOMAIN messages : WsSendDeliver(m)
  \/ \E m \in DOMAIN messages : AutoReadFind(m)
  \/ \E m \in DOMAIN messages : AutoReadSave(m)
  \/ \E cl \in WsReadClients, m \in DOMAIN messages \cup {UnknownMsg},
        u \in Users \cup {Outsider} :
       MarkRead(cl, m, u)
  \/ \E c \in readCalls : MarkReadSave(c)
  \/ \E cl \in WsReadClients, c \in Convs \cup {UnknownConv}, u \in Users \cup {Outsider} :
       MarkConversationRead(cl, c, u)

SpecErrors == Init /\ [][NextErrors]_vars

\* the presence registry and the active-context tracker alone, with every user on
\* every socket
NextPresence ==
  \/ \E s \in Sockets, u \in Users : HandleUserJoin(s, u)
  \/ \E s \in Sockets : HandleDisconnect(s)
  \/ \E s \in Sockets, u \in Users, c \in Convs : HandleConversationEnter(s, u, c)
  \/ \E s \in Sockets, u \in Users : HandleConversationLeave(s, u)

SpecPresence == Init /\ [][NextPresence]_vars

\* the presence registry and the active-context tracker under confirmation broadcasts
NextBroadcast ==
  \/ \E s \in Sockets, u \in Users : HandleUserJoin(s, u)
  \/ \E s \in Sockets : HandleDisconnect(s)
  \/ \E s \in Sockets, u \in Users, c \in Convs : HandleConversationEnter(s, u, c)
  \/ \E s \in Sockets, u \in Users : HandleConversationLeave(s, u)
  \/ \E c \in Convs, x \in Confirmations : BroadcastConfirmationUpdate(c, x)

SpecBroadcast == Init /\ [][NextBroadcast]_vars

(***************************************************************************)
(* Properties                                                              *)
(***************************************************************************)
\* the handler of queue message i has run and returned
HandlerReturned(i) == broker[i].deliveries > 0 /\ broker[i].hpc = "idle"

\* C1: in every reachable state, under any interleaving of sendAndUpdateSentAt
\* and createEmail calls and of provider quota failures, rateLimitCounter never
\* exceeds DAILY_EMAIL_LIMIT.
C1_CounterWithinLimit == rateLimitCounter <= DAILY_EMAIL_LIMIT

\* C2: a queue message whose processing fails with an unclassified error on every
\* delivery (a body that cannot be parsed) is requeued at most 3 times and then
\* acknowledged.
C2_PoisonMessageRequeuedAtMost3 ==
  \A i \in DOMAIN broker :
    broker[i].body = Garbage => broker[i].nacks <= maxRetries

\* C3: when the mail transport fails with a transient error while the consumer
\* processes a delivery, the delivery is negative-acknowledged with requeue and
\* the event is not acknowledged while its email is unsent.
C3_TransientFailureRequeued ==
  \A i \in DOMAIN broker :
    (HandlerReturned(i) /\ "transient" \in Range(broker[i].results))
      => (broker[i].acks = 0 /\ (channel => broker[i].nacks >= 1))

\* C4 as claimed: a delivery whose processing met a permanent provider rejection
\* (quota exceeded, authentication failure) is acknowledged exactly once, never
\* negative-acknowledged and never redelivered.
C4_PermanentAckedExactlyOnce ==
  \A i \in DOMAIN broker :
    (HandlerReturned(i) /\ Range(broker[i].results) \cap {"quota", "auth"} # {})
      => (broker[i].acks = 1 /\ broker[i].nacks = 0 /\ broker[i].deliveries = 1)

\* C4 as amended: such a delivery is never negative-acknowledged and never
\* redelivered; it is acknowledged at most once, and exactly once unless the
\* channel was lost before the handler returned.
C4_PermanentAckedOnceIfChannel ==
  \A i \in DOMAIN broker :
    (HandlerReturned(i) /\ Range(broker[i].results) \cap {"quota", "auth"} # {})
      => /\ broker[i].nacks = 0
         /\ broker[i].deliveries = 1
         /\ broker[i].acks <= 1
         /\ (channel => broker[i].acks = 1)

\* C4 witness: a delivery that met a quota rejection has been acknowledged
C4_Witness ==
  \E i \in DOMAIN broker :
    /\ HandlerReturned(i)
    /\ "quota" \in Range(broker[i].results)
    /\ broker[i].acks = 1
    /\ broker[i].state = "acked"

\* the notification events on the work queue that were published for chat message m
EventsFor(m) == Cardinality({i \in DOMAIN broker : broker[i].src = m})

\* the deferred check of message m has run to its end
CheckFinished(m) == messages[m].contact /\ messages[m].timer = "done"

\* C5: for a message sent with contact metadata, if receivedAt was set (by markRead,
\* markConversationRead or auto-read) before its deferred check re-reads it, the
\* check publishes nothing: no notification event is enqueued for the message.
C5_ReadBeforeCheckSuppresses ==
  \A m \in DOMAIN messages :
    (messages[m].timer \in {"fetched", "done"} /\ messages[m].readAtCheck)
      => (messages[m].published = 0 /\ EventsFor(m) = 0)

\* C5 witness: a check ran to its end on a read message while the broker was
\* available, and nothing is on the queue
C5_Witness ==
  \E m \in DOMAIN messages :
    /\ CheckFinished(m)
    /\ messages[m].readAtCheck
    /\ CanPublish
    /\ EventsFor(m) = 0

\* C6 as claimed: if the message is still unread when its deferred check fires,
\* exactly one notification event for it is enqueued on the work queue.
C6_UnreadAtCheckEnqueuesOne ==
  \A m \in DOMAIN messages :
    (CheckFinished(m) /\ ~messages[m].readAtCheck) => EventsFor(m) = 1

\* C6 as amended: if the message is still unread when its deferred check fires,
\* exactly one notification event for it is enqueued when the broker channel and
\* connection are available at the time of the publish, and none otherwise.
C6_UnreadAtCheckEnqueuesOneIfBrokerUp ==
  \A m \in DOMAIN messages :
    (CheckFinished(m) /\ ~messages[m].readAtCheck)
      => EventsFor(m) = (IF messages[m].upAtPublish THEN 1 ELSE 0)

\* C6 witness: an unread message's check has published its one event
C6_Witness ==
  \E m \in DOMAIN messages :
    /\ CheckFinished(m)
    /\ ~messages[m].readAtCheck
    /\ messages[m].upAtPublish
    /\ EventsFor(m) = 1

\* C7: for every message at most one notification event is ever published: a send
\* schedules one deferred check exactly when contact metadata is complete, and the
\* check publishes at most once.
C7_AtMostOneEventPerMessage ==
  \A m \in DOMAIN messages :
    /\ messages[m].published <= 1
    /\ EventsFor(m) <= 1
    /\ (messages[m].timer = "none") = ~messages[m].contact
    /\ (~messages[m].contact => EventsFor(m) = 0)

\* C7 witness: a message whose check has published, and has finished
C7_Witness ==
  \E m \in DOMAIN messages : CheckFinished(m) /\ messages[m].published = 1

\* C8: for every message, once receivedAt is non-null it is never overwritten.
C8_ReceivedAtSetOnce ==
  [][\A m \in DOMAIN messages :
       messages[m].receivedAt # 0 => messages'[m].receivedAt = messages[m].receivedAt]_vars

\* C9: a message's receivedAt becomes non-null only through an operation performed
\* for its recipient toId: a markRead or markConversationRead of another requester
\* leaves it unchanged.
C9_OnlyRecipientSetsReceivedAt ==
  \A m \in DOMAIN messages :
    /\ messages[m].setBy \subseteq {messages[m].toId}
    /\ (messages[m].receivedAt # 0 => messages[m].setBy = {messages[m].toId})

\* C9 witness: a mark-read of a requester who is not the recipient was refused, and
\* the recipient has marked the message
C9_Witness ==
  \E m \in DOMAIN messages :
    /\ Emitted("s2", "message:error", m) > 0
    /\ messages[m].receivedAt # 0
    /\ messages[m].setBy = {messages[m].toId}

\* C10: if the recipient is present and viewing the message's conversation when the
\* message is sent, the message is read automatically, exactly once: receivedAt is
\* set, one read-receipt goes to the sender and one auto-read notice to the recipient.
C10_AutoReadWhenViewing ==
  \A m \in DOMAIN messages :
    /\ messages[m].autoRead <= 1
    /\ (messages[m].viewing /\ messages[m].spc = "done")
         => /\ messages[m].receivedAt # 0
            /\ messages[m].autoRead = 1
            /\ Emitted(messages[m].client, "message:read-receipt", m) >= 1
            /\ Emitted(messages[m].rsock, "message:auto-read", m) = 1

PersistedUnsent(id) == id \in DOMAIN emailRecords /\ emailRecords[id].sentAt = 0

\* C12: the mail transport is never invoked before the notification record of that
\* email has been persisted with sentAt null: whenever a call (of the queue handler or
\* of createEmail) is inside the transport, its record is in storage with sentAt null.
C12_RecordPersistedBeforeSend ==
  /\ \A i \in DOMAIN broker :
       broker[i].hpc = "mail" => PersistedUnsent(broker[i].rec)
  /\ \A k \in CreateCallIds :
       createCalls[k].pc = "mail" => PersistedUnsent(CreateRecordId(k))

\* the transport has reported success for record id and its sentAt update is pending
SendSucceeded(id) ==
  \E i \in DOMAIN broker : broker[i].rec = id /\ broker[i].hpc = "update"

\* C13: a persisted record is never deleted, and its sentAt changes only from null to
\* a time, and only after the mail transport reported success for it: after a failed
\* or refused send the record stays in storage with sentAt null.
C13_SentAtOnlyAfterSuccess ==
  [][\A id \in DOMAIN emailRecords :
       /\ id \in DOMAIN emailRecords'
       /\ emailRecords'[id].sentAt # emailRecords[id].sentAt
            => (emailRecords[id].sentAt = 0 /\ SendSucceeded(id))]_vars

\* the record the handler of queue message i saved for round j of its current delivery
RoundRecord(i, j) ==
  QueueRecordId(i, broker[i].deliveries, EmailsFor(broker[i].body) - j + 1)

\* C13 witness: a handler has returned after one send that succeeded and one that
\* failed or was refused; the first record is marked sent, the second is still unsent
C13_Witness ==
  \E i \in DOMAIN broker :
    /\ HandlerReturned(i)
    /\ Len(broker[i].results) = 2
    /\ broker[i].results[1] = "ok"
    /\ broker[i].results[2] \in {"refused", "transient", "quota", "auth", "other"}
    /\ emailRecords[RoundRecord(i, 1)].sentAt # 0
    /\ PersistedUnsent(RoundRecord(i, 2))

\* C14: when the broker connection or channel is unavailable at the time publish is
\* called, the call returns (the deferred check that made it runs to its end), nothing
\* is put on the queue, and nothing is kept for later: no event for the message shows
\* up on the queue afterwards, even when the broker has become available.
C14_PublishWhileDownIsDropped ==
  \A m \in DOMAIN messages :
    (messages[m].timer = "done" /\ ~messages[m].readAtCheck /\ ~messages[m].upAtPublish)
      => (messages[m].published = 0 /\ EventsFor(m) = 0)

\* C14 witness: a publish was dropped, the broker is available now, and the queue
\* holds nothing for the message
C14_Witness ==
  \E m \in DOMAIN messages :
    /\ CheckFinished(m)
    /\ ~messages[m].readAtCheck
    /\ ~messages[m].upAtPublish
    /\ CanPublish
    /\ EventsFor(m) = 0

\* C15: a user has an active-context entry only if that user has a presence entry.
C15_ActiveContextOnlyWithPresence ==
  \A u \in Users : activeConversations[u] # NoConv => SocketOf(u) # NoSocket

\* the users the registry holds an entry for
RegisteredUsers(cu) == {cu[i].userId : i \in DOMAIN cu}

\* C16: the presence registry holds at most one entry per userId, and a register call
\* leaves the user mapped to the handle of that call (last registration wins) and
\* broadcasts user:online; no other user's entry changes.
C16_LastRegistrationWins ==
  [][/\ Cardinality(RegisteredUsers(connectedUsers')) = Len(connectedUsers')
     /\ \A s \in Sockets, u \in Users :
          HandleUserJoin(s, u)
            => /\ SocketOf(u)' = s
               /\ presenceBroadcast'[u] = "online"
               /\ \A v \in Users \ {u} : SocketOf(v)' = SocketOf(v)]_vars

\* C16 witness: both users are registered, the one that registered first under the
\* handle the other does not use, and both were broadcast online
C16_Witness ==
  /\ Len(connectedUsers) = 2
  /\ connectedUsers[1].socketId = "s2"
  /\ connectedUsers[2].socketId = "s1"
  /\ \A u \in Users : presenceBroadcast[u] = "online"

\* C17: after unregister(handle) no presence entry maps any user to that handle, and
\* every user that was registered under it has its active context cleared and was
\* broadcast offline.
C17_UnregisterClearsHandle ==
  [][\A s \in Sockets :
       HandleDisconnect(s)
         => \A i \in DOMAIN connectedUsers :
              connectedUsers[i].socketId = s
                => /\ SocketOf(connectedUsers[i].userId)' = NoSocket
                   /\ activeConversations'[connectedUsers[i].userId] = NoConv
                   /\ presenceBroadcast'[connectedUsers[i].userId] = "offline"]_vars

\* C18: markRead is idempotent. The call that finds the message unread stores the
\* receivedAt it returns; a later call markRead(m, toId), made when the message is
\* stored as read, succeeds, returns the stored receivedAt and changes no message.
C18_MarkReadIdempotent ==
  [][/\ readCalls' # readCalls
          => \A c \in readCalls :
               MarkReadSave(c) => messages'[c.msg].receivedAt = c.ts
     /\ readOps' # readOps
          => \A cl \in ReadClients, m \in DOMAIN messages :
               (messages[m].receivedAt # 0 /\ MarkRead(cl, m, messages[m].toId))
                 => /\ MarkReadResult(messages[m], now) = messages[m].receivedAt
                    /\ messages' = messages
                    /\ readCalls' = readCalls
                    /\ Emitted(cl, "message:error", m)' = Emitted(cl, "message:error", m)]_vars

\* C18 witness: the message was marked read by one markMessageAsRead call, and a
\* later markRead of the recipient over the socket was confirmed without a write
C18_Witness ==
  \E m \in DOMAIN messages :
    /\ messages[m].autoRead = 1
    /\ messages[m].receivedAt = messages[m].ats
    /\ messages[m].ats < now
    /\ readCalls = {}
    /\ Emitted("s2", "message:marked-read", m) = 1
    /\ Emitted("s2", "message:error", m) = 0

\* C19: markConversationRead(c, r) by a participant r sets receivedAt on exactly the
\* messages that are in conversation c, addressed to r and unread, and leaves every
\* other message as it is: those of another conversation, those addressed to another
\* user, and those already read.
C19_MarkConversationReadFrame ==
  [][\A cl \in ReadClients, c \in Convs, r \in Users :
       (readOps' # readOps /\ r \in Participants(c) /\ MarkConversationRead(cl, c, r))
         => \A m \in DOMAIN messages :
              IF /\ messages[m].conversationId = c
                 /\ messages[m].toId = r
                 /\ messages[m].receivedAt = 0
                THEN /\ messages'[m].receivedAt = now
                     /\ [messages'[m] EXCEPT !.receivedAt = 0, !.setBy = {}]
                          = [messages[m] EXCEPT !.setBy = {}]
                ELSE messages'[m] = messages[m]]_vars

\* C19 witness: the only mark-read request so far was a markConversationRead of the
\* recipient over the socket, and it has marked the message
C19_Witness ==
  \E m \in DOMAIN messages :
    /\ readOps = 1
    /\ Emitted("s2", "conversation:marked-read", 0) = 1
    /\ messages[m].autoRead = 0
    /\ messages[m].spc = "done"
    /\ messages[m].receivedAt # 0
    /\ messages[m].setBy = {messages[m].toId}

\* C20: markRead on an unknown message and markConversationRead on an unknown
\* conversation fail with NotFound; markRead by a requester who is not the recipient
\* and markConversationRead by a requester who is not a participant fail with
\* Forbidden; in each failing case no message is modified.
C20_ReadErrorKinds ==
  [][/\ \A cl \in ReadClients, m \in DOMAIN messages \cup {UnknownMsg},
          u \in Users \cup {Outsider} :
          MarkRead(cl, m, u)
            => /\ m \notin DOMAIN messages
                    => (MarkReadError(m, u) = "NotFound" /\ messages' = messages)
               /\ (m \in DOMAIN messages /\ u # messages[m].toId)
                    => (MarkReadError(m, u) = "Forbidden" /\ messages' = messages)
     /\ \A cl \in ReadClients, c \in Convs \cup {UnknownConv}, u \in Users \cup {Outsider} :
          MarkConversationRead(cl, c, u)
            => /\ c \notin Convs
                    => (MarkConversationError(c, u) = "NotFound" /\ messages' = messages)
               /\ (c \in Convs /\ u \notin Participants(c))
                    => (MarkConversationError(c, u) = "Forbidden"
                        /\ messages' = messages)]_vars

\* what a failed request of socket cl leaves behind: one more message:error on cl,
\* no other event, presence, active contexts and messages as they were
FailedRequestEffect(cl) ==
  /\ ErrorsTo(emitted', cl) = ErrorsTo(emitted, cl) + 1
  /\ \A s \in Sockets \ {cl} : ErrorsTo(emitted', s) = ErrorsTo(emitted, s)
  /\ NonErrorEvents(emitted') = NonErrorEvents(emitted)
  /\ connectedUsers' = connectedUsers
  /\ activeConversations' = activeConversations
  /\ messages' = messages
  /\ readCalls' = readCalls

\* C21: when a message:send, message:mark-read or conversation:mark-read request of a
\* socket fails, exactly one message:error is emitted to that socket, no message:sent,
\* message:received or read-receipt (or any other event) is emitted, and the presence
\* and active-context maps are unchanged.
C21_HandlerErrorIsOneErrorEvent ==
  [][/\ \A cl \in Sockets, inp \in SendInputs :
          (SendError(inp) # "none" /\ SendMessage(cl, inp, {}))
            => FailedRequestEffect(cl)
     /\ \A cl \in Sockets, m \in DOMAIN messages \cup {UnknownMsg},
          u \in Users \cup {Outsider} :
          (MarkReadError(m, u) # "none" /\ MarkRead(cl, m, u))
            => FailedRequestEffect(cl)
     /\ \A cl \in Sockets, c \in Convs \cup {UnknownConv}, u \in Users \cup {Outsider} :
          (MarkConversationError(c, u) # "none" /\ MarkConversationRead(cl, c, u))
            => FailedRequestEffect(cl)]_vars

\* C21 witness: a send and a mark-read were refused over two sockets while the
\* recipient was registered and viewing; each socket has its one message:error
C21_Witness ==
  /\ rejected = 1
  /\ readOps = 1
  /\ ErrorsTo(emitted, "s1") = 1
  /\ ErrorsTo(emitted, "s2") = 1
  /\ NonErrorEvents(emitted) = [k \in {} |-> 0]
  /\ SocketOf("u2") = "s2"
  /\ activeConversations["u2"] = "c1"

\* C22: on a successful send over the socket the message is persisted before anything
\* is emitted for it; then the sender gets one message:sent, and the recipient's
\* registered socket gets one message:received if the recipient has a presence entry;
\* without a presence entry no message:received is emitted and the send still
\* succeeds: no message:error, and the handler goes on.
C22_SendPersistsThenDelivers ==
  [][/\ \A k \in DOMAIN emitted' :
          k[2] \in {"message:sent", "message:received"} => k[3] \in DOMAIN messages
     /\ \A m \in DOMAIN messages :
          (messages[m].spc = "saved" /\ WsSendDeliver(m))
            => LET msg == messages[m] IN
               /\ \A s \in Sockets :
                    Emitted(s, "message:sent", m) = 0 /\ Emitted(s, "message:received", m) = 0
               /\ \A s \in Sockets :
                    Emitted(s, "message:sent", m)' = (IF s = msg.client THEN 1 ELSE 0)
               /\ \A s \in Sockets :
                    Emitted(s, "message:received", m)'
                      = (IF s = SocketOf(msg.toId) THEN 1 ELSE 0)
               /\ \A s \in Sockets : ErrorsTo(emitted', s) = ErrorsTo(emitted, s)
               /\ messages'[m].spc \in {"done", "autofind"}]_vars

\* C22 witness: a message was sent over the socket while the recipient had no
\* presence entry: the sender has its ack, nobody got message:received, and the
\* recipient has registered since
C22_Witness ==
  \E m \in DOMAIN messages :
    /\ messages[m].client = "s1"
    /\ messages[m].spc = "done"
    /\ Emitted("s1", "message:sent", m) = 1
    /\ \A s \in Sockets : Emitted(s, "message:received", m) = 0
    /\ ErrorsTo(emitted, "s1") = 0
    /\ SocketOf(messages[m].toId) = "s2"

\* the send handler of message m has returned without pushing it to anyone: the
\* recipient had no presence entry when the handler looked it up, or the message came
\* over HTTP
NeverPushed(m) ==
  /\ messages[m].spc = "done"
  /\ \A s \in Sockets : Emitted(s, "message:received", m) = 0

\* C23: a message sent while its recipient has no presence entry is never pushed
\* later. A step that changes the presence or the active-context map (join, enter,
\* leave, disconnect) emits no message event and changes no message; such a message
\* never gets a message:received or an auto-read afterwards, and its receivedAt
\* leaves null only through a markRead or markConversationRead of its recipient.
C23_AbsentRecipientNeverPushedLater ==
  [][/\ (connectedUsers' # connectedUsers \/ activeConversations' # activeConversations)
          => (emitted' = emitted /\ messages' = messages)
     /\ \A m \in DOMAIN messages :
          NeverPushed(m)
            => /\ \A s \in Sockets : Emitted(s, "message:received", m)' = 0
               /\ messages'[m].spc = "done"
               /\ messages'[m].autoRead = 0
               /\ (messages[m].receivedAt = 0 /\ messages'[m].receivedAt # 0)
                    => /\ (readOps' # readOps \/ readCalls' # readCalls)
                       /\ messages'[m].setBy = {messages[m].toId}]_vars

\* C23 witness: a message sent over the socket was pushed to nobody; its recipient
\* has since registered and entered its conversation, and it is still unread
C23_Witness ==
  \E m \in DOMAIN messages :
    /\ messages[m].client = "s1"
    /\ NeverPushed(m)
    /\ SocketOf(messages[m].toId) = "s2"
    /\ activeConversations[messages[m].toId] = messages[m].conversationId
    /\ messages[m].receivedAt = 0
    /\ readOps = 0

\* C24: a send attempt whose rate-limit check runs with the counter at the cap (or
\* above) inside the window is refused and does not reach the mail transport; a
\* check that runs after the time has passed rateLimitResetTime sets the counter to
\* 0 and rateLimitResetTime to now plus the window, and the attempt goes on to the
\* transport; below the cap inside the window the attempt goes on and the limiter
\* is left as it is.
C24_CapRefusesUntilWindowResets ==
  [][/\ \A i \in DOMAIN broker :
          (broker[i].hpc = "find" /\ SendCheck(i))
            => IF now > rateLimitResetTime
                 THEN /\ rateLimitCounter' = 0
                      /\ rateLimitResetTime' = now + RATE_LIMIT_WINDOW
                      /\ broker'[i].hpc = "mail"
                 ELSE /\ rateLimitCounter' = rateLimitCounter
                      /\ rateLimitResetTime' = rateLimitResetTime
                      /\ IF rateLimitCounter >= DAILY_EMAIL_LIMIT
                           THEN /\ broker'[i].hpc # "mail"
                                /\ broker'[i].results = Append(broker[i].results, "refused")
                           ELSE broker'[i].hpc = "mail"
     /\ \A k \in CreateCallIds :
          (createCalls[k].pc = "idle" /\ CreateEmailStart(k))
            => IF now > rateLimitResetTime
                 THEN /\ rateLimitCounter' = 0
                      /\ rateLimitResetTime' = now + RATE_LIMIT_WINDOW
                      /\ createCalls'[k].pc = "mail"
                 ELSE /\ rateLimitCounter' = rateLimitCounter
                      /\ rateLimitResetTime' = rateLimitResetTime
                      /\ IF rateLimitCounter >= DAILY_EMAIL_LIMIT
                           THEN createCalls'[k] = [pc |-> "done", result |-> "refused"]
                           ELSE createCalls'[k].pc = "mail"]_vars

\* C24 witness: the cap was reached by a successful send, the next attempt was
\* refused, and after the window had elapsed the limiter was reset and a createEmail
\* send succeeded
C24_Witness ==
  /\ \E i \in DOMAIN broker : broker[i].results = <<"ok", "refused">>
  /\ \E k \in CreateCallIds : createCalls[k].result = "ok"
  /\ rateLimitCounter = 1
  /\ rateLimitResetTime = now + RATE_LIMIT_WINDOW

\* the limiter is closed: the counter is at the cap and the window has not elapsed
LimiterClosed == rateLimitCounter >= DAILY_EMAIL_LIMIT /\ now <= rateLimitResetTime

\* C25: when the provider reports its daily quota exceeded, the counter is set to the
\* cap at once; while the counter is at the cap it does not go down before the
\* limiter is reset, and while the limiter is closed no send attempt enters the mail
\* transport.
C25_QuotaClosesLimiter ==
  [][/\ \A i \in DOMAIN broker :
          (broker[i].hpc = "mail" /\ MailResult(i, "quota"))
            => rateLimitCounter' = DAILY_EMAIL_LIMIT
     /\ \A k \in CreateCallIds :
          (createCalls[k].pc = "mail" /\ CreateEmailResult(k, "quota"))
            => rateLimitCounter' = DAILY_EMAIL_LIMIT
     /\ (rateLimitCounter >= DAILY_EMAIL_LIMIT /\ rateLimitResetTime' = rateLimitResetTime)
          => rateLimitCounter' >= DAILY_EMAIL_LIMIT
     /\ LimiterClosed
          => /\ \A i \in DOMAIN broker :
                  broker'[i].hpc = "mail" => broker[i].hpc = "mail"
             /\ \A k \in CreateCallIds :
                  createCalls'[k].pc = "mail" => createCalls[k].pc = "mail"]_vars

\* C25 witness: early in the window the provider rejected a send for quota, the
\* counter is at the cap, and the attempts that followed were refused by the limiter
C25_Witness ==
  /\ \E i \in DOMAIN broker : broker[i].results = <<"quota", "refused">>
  /\ \E k \in CreateCallIds : createCalls[k].result = "refused"
  /\ rateLimitCounter = DAILY_EMAIL_LIMIT
  /\ ticks = 0

\* the deliveries whose handler has started and has not yet settled or returned
HandlersRunning == {i \in DOMAIN broker : broker[i].hpc # "idle"}

\* C26: the consumer processes one delivery at a time: the handler of a delivery is
\* never started while the handler of an earlier delivery has not yet acknowledged or
\* negative-acknowledged it.
C26_OneDeliveryAtATime == Cardinality(HandlersRunning) <= 1

\* C28: every event on the work queue was published under the routing key bound for
\* its kind: publishEmailEvent derives the key from the event's type.
C28_RoutingKeyFromType ==
  \A i \in DOMAIN broker :
    broker[i].body \in EventTypes => broker[i].routingKey = BoundKey(broker[i].body)

\* C27: module start never fails: onModuleInit completes for every outcome of
\* connect() and of channel.consume, and registers no consumer when either failed.
\* What was not obtained at start is not obtained later (nothing reconnects). While
\* the channel or the connection is unavailable, nothing enters the work queue, and a
\* deferred check that fires ends without leaving anything to publish later; sends
\* and mark-read requests are accepted as before.
C27_FailedStartDegradesGracefully ==
  [][/\ \A o \in ConnectOutcomes, c \in BOOLEAN :
          (~started /\ OnModuleInit(o, c))
            => /\ started'
               /\ ((o # "ok" \/ ~c) => ~consumer')
               /\ (o # "ok" => ~CanPublish')
               /\ msgVars' = msgVars
     /\ started => /\ started'
                    /\ (~connection => ~connection')
                    /\ (~channel => ~channel')
                    /\ (~consumer => ~consumer')
     /\ ~CanPublish
          => /\ Len(broker') = Len(broker)
             /\ \A m \in DOMAIN messages :
                  (messages[m].timer = "fetched" /\ messages'[m].timer # "fetched")
                    => (messages'[m].timer = "done" /\ messages'[m].published = 0)
             /\ (Len(messages) < MaxMsgs
                  => \A cl \in SendClients, inp \in ValidSendInputs :
                       ENABLED SendMessage(cl, inp, ContactFields))
             /\ (readOps < MaxReadOps
                  => \A m \in DOMAIN messages :
                       ENABLED MarkRead(Http, m, messages[m].toId))]_vars

\* C27 witness: the start failed without a connection; a message sent with contact
\* metadata was marked read by its recipient only after its deferred check had run
\* to its end, and the queue is empty
C27_Witness ==
  /\ started
  /\ ~connection
  /\ ~consumer
  /\ broker = <<>>
  /\ \E m \in DOMAIN messages :
       /\ CheckFinished(m)
       /\ ~messages[m].readAtCheck
       /\ messages[m].receivedAt # 0

\* C29: a send with any of senderName, senderEmail, recipientName, recipientEmail
\* missing persists the message and lets its handler go on, but schedules no deferred
\* check; a message without a scheduled check never gets one, nothing is ever
\* published for it, and its sender still gets message:sent.
C29_IncompleteContactNoNotification ==
  [][/\ \A cl \in SendClients, inp \in ValidSendInputs, ct \in IncompleteContacts :
          (Len(messages') # Len(messages) /\ SendMessage(cl, inp, ct))
            => LET m == Len(messages') IN
               /\ m = Len(messages) + 1
               /\ messages'[m].fromId = inp.fromId
               /\ messages'[m].toId = inp.toId
               /\ messages'[m].conversationId = inp.conversationId
               /\ messages'[m].spc = (IF cl = Http THEN "done" ELSE "saved")
               /\ messages'[m].timer = "none"
               /\ broker' = broker
     /\ \A m \in DOMAIN messages :
          messages[m].timer = "none"
            => /\ messages'[m].timer = "none"
               /\ messages'[m].published = 0
               /\ Cardinality({i \in DOMAIN broker' : broker'[i].src = m}) = 0
               /\ (messages[m].spc = "saved" /\ messages'[m].spc # "saved")
                    => Emitted(messages[m].client, "message:sent", m)' = 1]_vars

\* C29 witness: a message sent over the socket without complete contact metadata
\* was saved and confirmed to its sender while the broker was available; no check
\* is pending and the queue is empty
C29_Witness ==
  \E m \in DOMAIN messages :
    /\ ~messages[m].contact
    /\ messages[m].spc = "done"
    /\ Emitted("s1", "message:sent", m) = 1
    /\ messages[m].timer = "none"
    /\ CanPublish
    /\ broker = <<>>

\* C30: a read does not cancel a notification. A step that sets a message's
\* receivedAt leaves the work queue, the message's timer and what was published for
\* it as they are; a scheduled check can only fire (no step takes a pending timer
\* anywhere but to the fetch of the check, nor a fetched one anywhere but to its
\* end); and a check that read the message as unread publishes when the broker is
\* available, whether or not the message has been read since.
C30_ReadAfterCheckDoesNotCancel ==
  [][\A m \in DOMAIN messages :
       /\ messages'[m].receivedAt # messages[m].receivedAt
            => /\ broker' = broker
               /\ messages'[m].timer = messages[m].timer
               /\ messages'[m].seen = messages[m].seen
               /\ messages'[m].published = messages[m].published
       /\ messages[m].timer = "pending" => messages'[m].timer \in {"pending", "fetched"}
       /\ messages[m].timer = "fetched" => messages'[m].timer \in {"fetched", "done"}
       /\ (/\ messages[m].timer = "fetched"
           /\ messages'[m].timer = "done"
           /\ messages[m].seen = 0
           /\ CanPublish)
            => /\ messages'[m].published = 1
               /\ Len(broker') = Len(broker) + 1
               /\ broker'[Len(broker')].src = m]_vars

\* C30 witness: the check found the message unread and published its event; the
\* recipient has read the message since, and the event is still on the queue
C30_Witness ==
  \E m \in DOMAIN messages :
    /\ CheckFinished(m)
    /\ ~messages[m].readAtCheck
    /\ messages[m].published = 1
    /\ messages[m].receivedAt # 0
    /\ \E i \in DOMAIN broker : broker[i].src = m /\ broker[i].state = "ready"

\* C31: the outcome of a send does not depend on the notification path. Whatever the
\* broker, the deferred check, the publisher, the consumer and the mail transport
\* do, no socket ever gets a message:error, and every message whose send handler has
\* returned is persisted and was confirmed to its sender with one message:sent.
C31_SendIndependentOfNotification ==
  /\ \A s \in Sockets : ErrorsTo(emitted, s) = 0
  /\ rejected = 0
  /\ \A m \in DOMAIN messages :
       (messages[m].client \in Sockets /\ messages[m].spc = "done")
         => Emitted(messages[m].client, "message:sent", m) = 1

\* C31 witness: the event of a confirmed message was consumed and its e-mail was
\* rejected by the provider; the sender has its message:sent and no message:error
C31_Witness ==
  \E m \in DOMAIN messages, i \in DOMAIN broker :
    /\ broker[i].src = m
    /\ HandlerReturned(i)
    /\ "auth" \in Range(broker[i].results)
    /\ messages[m].spc = "done"
    /\ Emitted("s1", "message:sent", m) = 1
    /\ ErrorsTo(emitted, "s1") = 0

\* C32: when the transport rejects a createEmail send with an error other than
\* provider quota exceeded, the call ends with that same error, the Notification
\* table and the rate-limit counter are unchanged, and the call never gets a record;
\* when the send succeeds, the call goes on to persist exactly one new record with
\* sentAt set to the current time and returns it.
C32_CreateEmailOutcome ==
  [][\A k \in CreateCallIds :
       /\ \A o \in MailOutcomes \ {"ok", "quota"} :
            CreateEmailResult(k, o)
              => /\ createCalls'[k] = [pc |-> "done", result |-> o]
                 /\ emailRecords' = emailRecords
                 /\ rateLimitCounter' = rateLimitCounter
       /\ CreateEmailResult(k, "ok")
            => /\ createCalls'[k] = [pc |-> "save", result |-> "ok"]
               /\ emailRecords' = emailRecords
       /\ CreateEmailSave(k)
            => /\ createCalls[k].result = "ok"
               /\ createCalls'[k] = [pc |-> "done", result |-> "ok"]
               /\ CreateRecordId(k) \notin DOMAIN emailRecords
               /\ DOMAIN emailRecords' = DOMAIN emailRecords \cup {CreateRecordId(k)}
               /\ emailRecords'[CreateRecordId(k)].sentAt = now
               /\ now > 0
               /\ \A x \in DOMAIN emailRecords : emailRecords'[x] = emailRecords[x]
       /\ (createCalls'[k].pc = "done" /\ createCalls'[k].result # "ok")
            => CreateRecordId(k) \notin DOMAIN emailRecords'
       /\ (createCalls'[k].pc \in {"idle", "mail", "save"})
            => CreateRecordId(k) \notin DOMAIN emailRecords'
  ]_vars

\* C32 witness: a createEmail call ended with a transport error that is not the
\* quota error; it has no record and the counter was not touched
C32_Witness ==
  \E k \in CreateCallIds :
    /\ createCalls[k] = [pc |-> "done", result |-> "transient"]
    /\ CreateRecordId(k) \notin DOMAIN emailRecords
    /\ rateLimitCounter = 0

\* C33: for every plaintext p, decrypt(encrypt(p)) returns p and
\* isEncrypted(encrypt(p)) is true.
C33_EncryptDecryptRoundTrip ==
  /\ decrypted # NoResult => decrypted = Returned(plaintext)
  /\ detected # "none" => detected = "true"

\* C34: if user u re-registered under a new socket and the socket it replaced
\* disconnects afterwards, that disconnect leaves u's presence entry and u's active
\* context unchanged and broadcasts no user:offline for u.
C34_StaleDisconnectKeepsUser ==
  [][\A s \in Sockets, u \in Users :
       (/\ superseded[u].socketId = s
        /\ SocketOf(u) \notin {NoSocket, s}
        /\ HandleDisconnect(s))
         => /\ SocketOf(u)' = SocketOf(u)
            /\ activeConversations'[u] = activeConversations[u]
            /\ presenceBroadcast'[u] = presenceBroadcast[u]]_vars

\* C34 witness: u1 moved from s1 to s2 while viewing c1, s1 has disconnected since,
\* and u1 is still registered under s2, still viewing c1 and still broadcast online
C34_Witness ==
  /\ superseded["u1"] = [socketId |-> "s1", disconnected |-> TRUE]
  /\ SocketOf("u1") = "s2"
  /\ activeConversations["u1"] = "c1"
  /\ presenceBroadcast["u1"] = "online"

\* C35: for a message sent over message:send with contact metadata to a recipient
\* who is present and viewing the conversation, at the send and when the handler
\* delivers the saved message, no notification event is ever enqueued, however the
\* deferred check interleaves with the auto-read.
C35_ViewedMessageNeverNotified ==
  \A m \in DOMAIN messages :
    (/\ messages[m].client \in Sockets
     /\ messages[m].contact
     /\ messages[m].viewing
     /\ messages[m].rsock # NoSocket)
      => EventsFor(m) = 0

\* C36: once the connection or the channel has reported an error or a close, the
\* service never gets it back: from then on the channel stays unavailable, every
\* publish is dropped (the work queue does not grow and the deferred check that
\* publishes leaves nothing behind) and the consumer gets no further delivery.
C36_NoReconnect ==
  [][(started /\ ~CanPublish)
       => /\ started'
          /\ ~CanPublish'
          /\ (~connection => ~connection')
          /\ ~consumer'
          /\ Len(broker') = Len(broker)
          /\ \A i \in DOMAIN broker : broker'[i].deliveries = broker[i].deliveries
          /\ \A m \in DOMAIN messages :
               (messages[m].timer = "fetched" /\ messages[m].seen = 0 /\ CheckDecide(m))
                 => /\ messages'[m].timer = "done"
                    /\ messages'[m].published = 0
                    /\ EventsFor(m)' = EventsFor(m)]_vars

\* C36 witness: the start succeeded and the channel closed while the handler of an
\* event was running; the broker has put the event back in the queue, where it stays
\* undelivered
C36_Witness ==
  /\ started
  /\ connection
  /\ ~channel
  /\ ~consumer
  /\ \E i \in DOMAIN broker :
       /\ broker[i].deliveries = 1
       /\ broker[i].state = "ready"
       /\ broker[i].nacks = 0

\* C37: while the channel is available, every handler run ends with exactly one
\* ack or exactly one nack-with-requeue of its delivery, never both and never
\* neither, and nothing else acknowledges: on the success path, and in the catch
\* block for each kind of error, below and above the retry limit.
C37_SettledExactlyOnce ==
  [][\A i \in DOMAIN broker :
       LET b == broker[i]
           a == broker'[i]
           ends == a.hpc = "idle" /\ (b.hpc # "idle" \/ a.deliveries # b.deliveries) IN
       /\ (ends /\ channel)
            => /\ \/ a.acks = b.acks + 1 /\ a.nacks = b.nacks /\ a.state = "acked"
                  \/ a.nacks = b.nacks + 1 /\ a.acks = b.acks /\ a.state = "ready"
               /\ \A e \in BranchErrors, h \in {0, maxRetries} :
                    LET r == SettleFailure([b EXCEPT !.retryHeader = h], e) IN
                    /\ r.hpc = "idle"
                    /\ r.acks + r.nacks = b.acks + b.nacks + 1
                    /\ r.state = IF r.acks = b.acks + 1 THEN "acked" ELSE "ready"
       /\ ~ends => (a.acks = b.acks /\ a.nacks = b.nacks)]_vars

\* C37 witness: with the channel up, a malformed body was delivered twice and
\* negative-acknowledged once per delivery, never acknowledged
C37_Witness ==
  /\ channel
  /\ \E i \in DOMAIN broker :
       /\ broker[i].body = Garbage
       /\ broker[i].hpc = "idle"
       /\ broker[i].deliveries = 2
       /\ broker[i].nacks = 2
       /\ broker[i].acks = 0

\* C38: a send whose conversation does not exist, or whose fromId or toId is not
\* one of the conversation's two participants, is rejected with an error: it
\* persists no message, schedules no deferred check and puts nothing on the work
\* queue; over the socket the sender gets one message:error and no other event.
\* Every message that is persisted has an existing conversation and two participants.
C38_InvalidSendRejected ==
  [][/\ \A cl \in SendClients, inp \in SendInputs :
          (/\ \/ inp.conversationId \notin Convs
              \/ inp.fromId \notin Participants(inp.conversationId)
              \/ inp.toId \notin Participants(inp.conversationId)
           /\ SendMessage(cl, inp, ContactFields))
            => /\ messages' = messages
               /\ broker' = broker
               /\ rejected' = rejected + 1
               /\ NonErrorEvents(emitted') = NonErrorEvents(emitted)
               /\ \A s \in Sockets :
                    ErrorsTo(emitted', s) = ErrorsTo(emitted, s) + (IF s = cl THEN 1 ELSE 0)
     /\ \A m \in DOMAIN messages' :
          /\ messages'[m].conversationId \in Convs
          /\ {messages'[m].fromId, messages'[m].toId}
               \subseteq Participants(messages'[m].conversationId)]_vars

\* C38 witness: a send over the socket was rejected; no message is stored, nothing is
\* queued and the socket has its message:error
C38_Witness ==
  /\ rejected = 1
  /\ messages = <<>>
  /\ broker = <<>>
  /\ ErrorsTo(emitted, "s1") = 1

\* C39: the rate-limit counter increases by exactly 1 per send that the transport
\* reports as successful, and is left unchanged by a send that the limiter refuses
\* and by a send that fails with an error other than provider quota exceeded. So,
\* between two resets, the counter equals the number of successful sends unless a
\* quota-exceeded failure has forced it to the cap.
C39_CounterCountsSuccessfulSends ==
  [][/\ \A k \in CreateCallIds :
          /\ CreateEmailResult(k, "ok") => rateLimitCounter' = rateLimitCounter + 1
          /\ \A o \in MailOutcomes \ {"ok", "quota"} :
               CreateEmailResult(k, o) => rateLimitCounter' = rateLimitCounter
          /\ (CreateEmailStart(k) /\ createCalls'[k].result = "refused")
               => rateLimitCounter' = rateLimitCounter
     /\ \A i \in DOMAIN broker :
          /\ MailResult(i, "ok") => rateLimitCounter' = rateLimitCounter + 1
          /\ \A o \in MailOutcomes \ {"ok", "quota"} :
               MailResult(i, o) => rateLimitCounter' = rateLimitCounter
          /\ (SendCheck(i) /\ broker'[i].hpc # "mail")
               => rateLimitCounter' = rateLimitCounter
     /\ ~windowSends'.forced => rateLimitCounter' = windowSends'.sent
     /\ windowSends'.forced => rateLimitCounter' >= DAILY_EMAIL_LIMIT]_vars

\* C39 witness: of two sends of one event the first failed with a transient error and
\* the second succeeded, which brought the counter to the cap; a createEmail call was
\* then refused; the counter equals the number of successful sends
C39_Witness ==
  /\ rateLimitCounter = DAILY_EMAIL_LIMIT
  /\ windowSends = [sent |-> DAILY_EMAIL_LIMIT, forced |-> FALSE]
  /\ \E k \in CreateCallIds : createCalls[k].result = "refused"
  /\ \E i \in DOMAIN broker : broker[i].results = <<"transient", "ok">>

====
